---- MODULE Spec2Model ----
(***************************************************************************)
(* Real-Futbol: the real-time forum (src/src/views/forum.js), its callers  *)
(* in the match detail view and the main entry point, the session          *)
(* (src/src/views/auth.js), the moderation functions                       *)
(* (src/src/views/moderation.js), and the stores they read and write.      *)
(*                                                                         *)
(* The document store is modelled by what forum.js uses of it: a live      *)
(* query (onSnapshot) is a registered listener that is handed the full     *)
(* matching set each time a matching document changes, unsubscribing       *)
(* removes the listener, getDocs reads the matching set once, and addDoc / *)
(* updateDoc / deleteDoc are atomic single-document writes.  Every `await` *)
(* of an async function is a point where other handlers may run.          *)
(***************************************************************************)
EXTENDS Integers, Sequences, FiniteSets, TLC

\* ------------------------------------------------------------------ bounds
MaxMsgs == 2        \* message documents of the lifecycle specification
MaxInflight == 1    \* snapshot callbacks suspended at their await, per feed
MaxReactions == 2   \* reaction documents in the store
MaxBatchMsgs == 12  \* message documents of the batch specification
MaxSnapMsgs == 3    \* message documents of the ordering specification
MaxTime == 3        \* timestamps of the ordering specification
MaxCalls == 2       \* toggleReaction calls suspended at an await
MaxToggles == 3     \* toggleReaction calls that are written or in flight
MaxModCalls == 1    \* deleteMessage, setUserUsername and moderation.js calls at an await
MaxClock == 2       \* Date.now() goes from 0 to MaxClock

\* ------------------------------------------------------- program constants
BatchLimit == 10    \* messageIds.slice(0, 10): the store's "in" filter limit

Null == "null"
\* The value of a listener handle that holds no unsubscribe function (null).
NoSub == 0
NoUser == "nobody"
Users == {"u1", "u2"}
Contexts == {"global", "match_42"}
Containers == {"forum-messages", "match-forum-messages"}
ReactionTypes == {"like", "dislike"}

VARIABLES
    forum_messages,          \* collection forum_messages: id -> document
    message_reactions,       \* collection message_reactions: set of documents
    msgListeners,            \* live queries on forum_messages registered with the store
    reactListeners,          \* live queries on message_reactions registered with the store
    msgPending,              \* message listeners with a snapshot to deliver
    reactPending,            \* reaction listeners with a snapshot to deliver
    msgCallbacks,            \* message-snapshot callbacks suspended at `await import`
    reactCallbacks,          \* reaction-snapshot callbacks suspended at `await import`
    activeForumUnsubscribe,  \* forum.js:17
    reactionsUnsubscribe,    \* forum.js:174
    currentForumContext,     \* forum.js:18
    messageReactions,        \* forum.js:20
    dom,                     \* innerHTML of the two message containers
    currentView,             \* which view is shown: "matches", "forum" or "detail"
    selectedMatch,           \* matchDetail.js: let selectedMatch
    currentUser,             \* auth.js:42
    currentUserProfile,      \* auth.js:43
    currentUserRole,         \* auth.js:44
    authCallbacks,           \* onAuthStateChanged callbacks suspended at an await
    user_profiles,           \* collection user_profiles: uid -> document
    moderators,              \* collection moderators: the uids that have a document
    toggles,                 \* toggleReaction calls suspended at an await
    sends,                   \* sendMessage calls suspended at an await
    replyingTo,              \* forum.js:19
    toggleLog,               \* history: the toggles whose write was applied
    lastAlert,               \* the text of the last alert() shown
    muted_users,             \* collection muted_users: uid -> document
    banned_users,            \* collection banned_users: the uids that have a document
    clock,                   \* Date.now()
    modCalls,                \* deleteMessage, setUserUsername and moderation.js calls at an await
    returned                 \* what the last call that ended has returned

storeVars == <<forum_messages, message_reactions>>
feedVars == <<msgListeners, msgPending, msgCallbacks, activeForumUnsubscribe,
              currentForumContext>>
reactFeedVars == <<reactListeners, reactPending, reactCallbacks, reactionsUnsubscribe,
                   messageReactions>>
navVars == <<currentView, selectedMatch>>
authVars == <<currentUser, currentUserProfile, currentUserRole, authCallbacks>>
writeVars == <<user_profiles, moderators, toggles, sends, replyingTo, toggleLog,
               lastAlert>>

modVars == <<muted_users, banned_users, clock, modCalls, returned>>

vars == <<storeVars, feedVars, reactFeedVars, dom, navVars, authVars, writeVars, modVars>>

\* ------------------------------------------------------------------ helpers
Min(S) == CHOOSE x \in S : \A y \in S : x <= y

RECURSIVE SetToSeq(_)
\* The ids of a set in ascending order: the store hands a snapshot's documents
\* over in document-id order, which is unrelated to their timestamps.
SetToSeq(S) ==
    IF S = {} THEN <<>> ELSE <<Min(S)>> \o SetToSeq(S \ {Min(S)})

Range(s) == {s[i] : i \in 1..Len(s)}

\* A slice that keeps every element.
TakeAll(s, n) == s

\* s.slice(0, n)
Take(s, n) == IF Len(s) <= n THEN s ELSE SubSeq(s, 1, n)

DefaultReactions ==
    [likes |-> 0, dislikes |-> 0, userLike |-> FALSE, userDislike |-> FALSE]

\* The handles in use: a fresh listener gets the least one that nothing refers to.
UsedSubs ==
    {l.id : l \in msgListeners} \cup {l.id : l \in reactListeners}
        \cup {c.sub : c \in msgCallbacks} \cup {c.sub : c \in reactCallbacks}
        \cup ({activeForumUnsubscribe, reactionsUnsubscribe} \ {NoSub})

FreshSub == Min((1..(Cardinality(UsedSubs) + 1)) \ UsedSubs)

\* --------------------------------------------------- the store's live queries
\* query(collection(db, "forum_messages"), where("context", "==", context)):
\* the matching documents, in document-id order.
SnapshotDocs(context) ==
    LET ids == SetToSeq({id \in DOMAIN forum_messages :
                            forum_messages[id].context = context})
    IN  [i \in 1..Len(ids) |->
            [id |-> ids[i],
             timestamp |-> forum_messages[ids[i]].timestamp,
             deleted |-> forum_messages[ids[i]].deleted]]

\* where('messageId', 'in', ids): the matching reaction documents.
ReactionDocs(ids) == {d \in message_reactions : d.messageId \in ids}

\* addDoc gives the new reaction document an id no other document has.
FreshReactionId ==
    Min((1..(Cardinality(message_reactions) + 1)) \ {d.id : d \in message_reactions})

\* An unsubscribe that removes nothing.
UnsubscribeNothing(listeners, handle) == listeners

\* The unsubscribe function onSnapshot returns: it removes that one listener.
Unsubscribe(listeners, handle) == {l \in listeners : l.id # handle}

\* A write to a message of `context` gives every listener of that context a snapshot.
NotifyMsgListeners(context) ==
    msgPending \cup {l.id : l \in {x \in msgListeners : x.context = context}}

\* A write to a reaction of `messageId` gives every listener watching it a snapshot.
NotifyReactListeners(messageId) ==
    reactPending \cup {l.id : l \in {x \in reactListeners : messageId \in x.ids}}

\* --------------------------------------------- message ordering (forum.js:55-68)
\* A filter that keeps the deleted documents too.
AnyDoc(d) == TRUE

\* if (!data.deleted) messagesData.push(...)
VisibleDoc(d) == ~d.deleted

RECURSIVE InsertByTimestamp(_, _)
\* m goes behind every message whose timestamp is not larger: the sort is stable.
InsertByTimestamp(s, m) ==
    IF s = <<>> THEN <<m>>
    ELSE IF Head(s).timestamp <= m.timestamp
         THEN <<Head(s)>> \o InsertByTimestamp(Tail(s), m)
         ELSE <<m>> \o s

RECURSIVE SortByTimestamp(_)
\* messagesData.sort((a, b) => a.timestamp - b.timestamp)
SortByTimestamp(s) ==
    IF s = <<>> THEN <<>>
    ELSE InsertByTimestamp(SortByTimestamp(SubSeq(s, 1, Len(s) - 1)), s[Len(s)])

MessagesData(docs) ==
    LET kept == SortByTimestamp(SelectSeq(docs, VisibleDoc))
    IN  [i \in 1..Len(kept) |-> [id |-> kept[i].id, timestamp |-> kept[i].timestamp]]

\* ------------------------------------------------- rendering (forum.js:77-152)
\* The container's markup before any snapshot was rendered into it.
Initial == [kind |-> "initial", items |-> <<>>]
\* 'Sé el primero en escribir.'
Placeholder == [kind |-> "placeholder", items |-> <<>>]

ReactionsOf(reactions, id) ==
    IF id \in DOMAIN reactions THEN reactions[id] ELSE DefaultReactions

\* container.innerHTML = messagesData.map(...).join(''): one element per message,
\* with the reaction data messageReactions holds for it at that moment.
RenderMessages(messagesData) ==
    [kind |-> "list",
     items |-> [i \in 1..Len(messagesData) |->
                  [id |-> messagesData[i].id,
                   timestamp |-> messagesData[i].timestamp,
                   reactions |-> ReactionsOf(messageReactions, messagesData[i].id)]]]

\* updateReactionButtons: the buttons of every message that is a key of
\* messageReactions are set from its entry; the other elements are left as they are.
UpdateReactionButtons(d, reactions) ==
    [c \in Containers |->
        [kind |-> d[c].kind,
         items |-> [i \in 1..Len(d[c].items) |->
                      IF d[c].items[i].id \in DOMAIN reactions
                      THEN [d[c].items[i] EXCEPT !.reactions = reactions[d[c].items[i].id]]
                      ELSE d[c].items[i]]]]

\* An aggregate that counts every record as a like and as a dislike.
AggregateAnyType(docs, currentUserId) ==
    [m \in {d.messageId : d \in docs} |->
        [likes |-> Cardinality({d \in docs : d.messageId = m}),
         dislikes |-> Cardinality({d \in docs : d.messageId = m}),
         userLike |-> \E d \in docs : d.messageId = m /\ d.userId = currentUserId,
         userDislike |-> \E d \in docs : d.messageId = m /\ d.userId = currentUserId]]

\* The reaction snapshot's aggregate (forum.js:197-224).
Aggregate(docs, currentUserId) ==
    [m \in {d.messageId : d \in docs} |->
        [likes |-> Cardinality({d \in docs : d.messageId = m /\ d.type = "like"}),
         dislikes |-> Cardinality({d \in docs : d.messageId = m /\ d.type = "dislike"}),
         userLike |-> \E d \in docs :
                        d.messageId = m /\ d.type = "like" /\ d.userId = currentUserId,
         userDislike |-> \E d \in docs :
                        d.messageId = m /\ d.type = "dislike" /\ d.userId = currentUserId]]

EmptyReactions == [m \in {} |-> DefaultReactions]

\* A callback that adds the snapshot's counts to the ones it finds.
AccumulateReactionSnapshot(previous, docs, currentUserId) ==
    LET fresh == Aggregate(docs, currentUserId)
    IN  [m \in DOMAIN previous \cup DOMAIN fresh |->
            LET a == ReactionsOf(previous, m)
                b == ReactionsOf(fresh, m)
            IN  [likes |-> a.likes + b.likes, dislikes |-> a.dislikes + b.dislikes,
                 userLike |-> a.userLike \/ b.userLike,
                 userDislike |-> a.userDislike \/ b.userDislike]]

\* The reaction callback's new messageReactions (forum.js:197-224): the previous
\* value is dropped (`messageReactions = {}`) and the snapshot is aggregated.
ApplyReactionSnapshot(previous, docs, currentUserId) ==
    Aggregate(docs, currentUserId)

\* ------------------------------------------------------------- forum.js actions
\* initForum (forum.js:28-43): unsubscribe the previous message listener, set the
\* context, register the listener of the new context.  The store owes a new
\* listener its first snapshot.
initForum(context, containerId) ==
    /\ msgListeners' = Unsubscribe(msgListeners, activeForumUnsubscribe)
                         \cup {[id |-> FreshSub, context |-> context,
                                containerId |-> containerId]}
    /\ msgPending' = (msgPending \ {activeForumUnsubscribe}) \cup {FreshSub}
    /\ activeForumUnsubscribe' = FreshSub
    /\ currentForumContext' = context
    /\ UNCHANGED <<msgCallbacks, storeVars, reactFeedVars, dom, authVars, modVars, writeVars>>

\* loadReactionsRealtime (forum.js:175-192): unsubscribe the previous reaction
\* listener, reset messageReactions, register a listener on the first ten ids.
loadReactionsRealtime(messageIds, containerId) ==
    /\ messageReactions' = EmptyReactions
    /\ IF Len(messageIds) = 0
       THEN /\ reactListeners' = Unsubscribe(reactListeners, reactionsUnsubscribe)
            /\ reactPending' = reactPending \ {reactionsUnsubscribe}
            /\ UNCHANGED reactionsUnsubscribe
       ELSE /\ reactListeners' = Unsubscribe(reactListeners, reactionsUnsubscribe)
                                   \cup {[id |-> FreshSub,
                                          ids |-> Range(Take(messageIds, BatchLimit)),
                                          containerId |-> containerId]}
            /\ reactPending' = (reactPending \ {reactionsUnsubscribe}) \cup {FreshSub}
            /\ reactionsUnsubscribe' = FreshSub

\* The store calls the message listener l with the current snapshot
\* (forum.js:43-71).  An empty snapshot is handled at once; otherwise the callback
\* filters and sorts, and is suspended at `await import('./auth.js')`.
DeliverMsgSnapshot(l) ==
    /\ l \in msgListeners
    /\ l.id \in msgPending
    /\ msgPending' = msgPending \ {l.id}
    /\ LET docs == SnapshotDocs(l.context)
       IN  IF docs = <<>>
           THEN /\ dom' = [dom EXCEPT ![l.containerId] = Placeholder]
                /\ UNCHANGED msgCallbacks
           ELSE /\ Cardinality(msgCallbacks) < MaxInflight
                /\ msgCallbacks' = msgCallbacks \cup
                       {[sub |-> l.id, containerId |-> l.containerId,
                         messagesData |-> MessagesData(docs)]}
                /\ UNCHANGED dom
    /\ UNCHANGED <<msgListeners, activeForumUnsubscribe, currentForumContext,
                   storeVars, reactFeedVars, navVars, authVars, modVars, writeVars>>

\* The suspended callback cb resumes (forum.js:72-163): it renders its messages
\* into its container and, when there is at least one, reloads the reactions.
ResumeMsgCallback(cb) ==
    /\ cb \in msgCallbacks
    /\ msgCallbacks' = msgCallbacks \ {cb}
    /\ dom' = [dom EXCEPT ![cb.containerId] = RenderMessages(cb.messagesData)]
    /\ IF Len(cb.messagesData) > 0
       THEN loadReactionsRealtime([i \in 1..Len(cb.messagesData) |->
                                      cb.messagesData[i].id], cb.containerId)
       ELSE UNCHANGED <<reactListeners, reactPending, reactionsUnsubscribe,
                        messageReactions>>
    /\ UNCHANGED <<msgListeners, msgPending, activeForumUnsubscribe,
                   currentForumContext, reactCallbacks, storeVars, navVars, authVars,
                   modVars, writeVars>>

\* The store calls the reaction listener l with the current snapshot
\* (forum.js:192-193): the callback is suspended at `await import('./auth.js')`.
DeliverReactSnapshot(l) ==
    /\ l \in reactListeners
    /\ l.id \in reactPending
    /\ Cardinality(reactCallbacks) < MaxInflight
    /\ reactPending' = reactPending \ {l.id}
    /\ reactCallbacks' = reactCallbacks \cup
           {[sub |-> l.id, containerId |-> l.containerId, docs |-> ReactionDocs(l.ids)]}
    /\ UNCHANGED <<reactListeners, reactionsUnsubscribe, messageReactions,
                   feedVars, storeVars, dom, navVars, authVars, modVars, writeVars>>

\* The suspended reaction callback resumes (forum.js:194-227).
ResumeReactCallback(cb) ==
    /\ cb \in reactCallbacks
    /\ reactCallbacks' = reactCallbacks \ {cb}
    /\ messageReactions' = ApplyReactionSnapshot(messageReactions, cb.docs, currentUser)
    /\ dom' = UpdateReactionButtons(dom, messageReactions')
    /\ UNCHANGED <<reactListeners, reactPending, reactionsUnsubscribe,
                   feedVars, storeVars, navVars, authVars, modVars, writeVars>>

\* ------------------------------------------------------------------ navigation
Matches == {"42"}
\* `match_${selectedMatch.fixture.id}`
MatchContext(m) == IF m = "42" THEN "match_42" ELSE "global"
Tabs == {"tab-timeline", "tab-forum"}

\* navigateToForum (forum.js:351-367)
navigateToForum ==
    /\ currentView' = "forum"
    /\ initForum("global", "forum-messages")
    /\ UNCHANGED selectedMatch

\* openDetail (matchDetail.js): selectedMatch = m and the detail view is shown.
openDetail(m) ==
    /\ selectedMatch' = m
    /\ currentView' = "detail"
    /\ UNCHANGED <<storeVars, feedVars, reactFeedVars, dom, authVars, modVars, writeVars>>

\* switchTab (matchDetail.js): only the forum tab of a selected match opens a forum.
switchTab(targetId) ==
    /\ currentView = "detail"
    /\ IF targetId = "tab-forum" /\ selectedMatch # Null
       THEN initForum(MatchContext(selectedMatch), "match-forum-messages")
       ELSE UNCHANGED <<storeVars, feedVars, reactFeedVars, dom, authVars, modVars, writeVars>>
    /\ UNCHANGED <<currentView, selectedMatch>>

\* closeDetail (matchDetail.js): hides the detail view and navigates to '/'.
closeDetail ==
    /\ currentView = "detail"
    /\ currentView' = "matches"
    /\ UNCHANGED <<selectedMatch, storeVars, feedVars, reactFeedVars, dom,
                   authVars, modVars, writeVars>>

\* navigateToMatches (main entry point): hides the forum and the detail view.
navigateToMatches ==
    /\ currentView # "matches"
    /\ currentView' = "matches"
    /\ UNCHANGED <<selectedMatch, storeVars, feedVars, reactFeedVars, dom,
                   authVars, modVars, writeVars>>

\* ------------------------------------------------- writes of the other clients
\* Another client's deleteMessage: updateDoc(..., {deleted: true, ...}).
OtherClientDeletes(id) ==
    /\ id \in DOMAIN forum_messages
    /\ ~forum_messages[id].deleted
    /\ forum_messages' = [forum_messages EXCEPT ![id].deleted = TRUE,
                                                ![id].deletedBy = "u2",
                                                ![id].deletedAt = MaxTime]
    /\ msgPending' = NotifyMsgListeners(forum_messages[id].context)
    /\ UNCHANGED <<message_reactions, msgListeners, msgCallbacks,
                   activeForumUnsubscribe, currentForumContext, reactFeedVars, dom,
                   navVars, authVars, modVars, writeVars>>

\* Another client's toggleReaction, signed in as u: its addDoc of a first reaction.
OtherClientReacts(messageId, u, type) ==
    /\ messageId \in DOMAIN forum_messages
    /\ Cardinality(message_reactions) < MaxReactions
    /\ ~\E d \in message_reactions : d.messageId = messageId /\ d.userId = u
    /\ message_reactions' = message_reactions \cup
           {[id |-> FreshReactionId, messageId |-> messageId, userId |-> u,
             type |-> type]}
    /\ reactPending' = NotifyReactListeners(messageId)
    /\ UNCHANGED <<forum_messages, reactListeners, reactCallbacks, reactionsUnsubscribe,
                   messageReactions, feedVars, dom, navVars, authVars, modVars, writeVars>>

\* Another client's toggleReaction: its deleteDoc of the reaction d.
OtherClientUnreacts(d) ==
    /\ d \in message_reactions
    /\ message_reactions' = message_reactions \ {d}
    /\ reactPending' = NotifyReactListeners(d.messageId)
    /\ UNCHANGED <<forum_messages, reactListeners, reactCallbacks, reactionsUnsubscribe,
                   messageReactions, feedVars, dom, navVars, authVars, modVars, writeVars>>

\* ------------------------------------------------------- the session (auth.js)
\* A user_profiles document that does not exist / getUserProfile's null.
NoProfile == [exists |-> FALSE, username |-> "", commentCount |-> 0, role |-> "user"]
\* replyingTo = null
NoReply == 0
\* existingReactions.empty
NoDoc == 0
\* A message document without a deletedAt field.
NoTime == -1

\* moderation.js:27
DEVELOPER_UID == "SvMj82K5gNXub6StrHjz4JVpRB83"

\* A role lookup that takes a failed read of the registry for an entry.
EscalatingRole(uid, ok) ==
    IF uid = DEVELOPER_UID THEN "developer"
    ELSE IF ~ok \/ uid \in moderators THEN "moderator" ELSE "user"

\* getUserRole (moderation.js:34-51): the developer's uid is answered without a
\* read; for any other uid getDoc(moderators/uid) resolved (ok) or was rejected,
\* and the catch block falls through to 'user'.
getUserRole(uid, ok) ==
    IF uid = DEVELOPER_UID THEN "developer"
    ELSE IF ok /\ uid \in moderators THEN "moderator" ELSE "user"

\* The least call number no suspended call of `calls` carries.
FreshCall(calls) == Min((1..(Cardinality(calls) + 1)) \ {c.n : c \in calls})

\* onAuthStateChanged's callback (auth.js:379-383, 438-457) up to its first await:
\* currentUser = user; a signed-in user's profile is then awaited, a signed-out
\* state resets profile and role at once.
AuthStateChanged(user) ==
    /\ user # currentUser
    /\ currentUser' = user
    /\ IF user # NoUser
       THEN /\ Cardinality(authCallbacks) < MaxInflight
            /\ authCallbacks' = authCallbacks \cup
                   {[n |-> FreshCall(authCallbacks), uid |-> user, pc |-> "profile"]}
            /\ UNCHANGED <<currentUserProfile, currentUserRole>>
       ELSE /\ currentUserProfile' = NoProfile
            /\ currentUserRole' = "user"
            /\ UNCHANGED authCallbacks
    /\ UNCHANGED <<storeVars, feedVars, reactFeedVars, dom, navVars, writeVars, modVars>>

\* auth.js:383-387: getUserProfile resolved (null when the read failed), the role
\* is awaited next.
AuthProfileLoaded(cb, ok) ==
    /\ cb \in authCallbacks
    /\ cb.pc = "profile"
    /\ currentUserProfile' = IF ok THEN user_profiles[cb.uid] ELSE NoProfile
    /\ authCallbacks' = (authCallbacks \ {cb}) \cup {[cb EXCEPT !.pc = "role"]}
    /\ UNCHANGED <<currentUser, currentUserRole, storeVars, feedVars, reactFeedVars,
                   dom, navVars, writeVars, modVars>>

\* auth.js:387-437: getUserRole resolved, its read of the registry answered (ok)
\* or rejected.
AuthRoleLoaded(cb, ok) ==
    /\ cb \in authCallbacks
    /\ cb.pc = "role"
    /\ currentUserRole' = getUserRole(cb.uid, ok)
    /\ authCallbacks' = authCallbacks \ {cb}
    /\ UNCHANGED <<currentUser, currentUserProfile, storeVars, feedVars,
                   reactFeedVars, dom, navVars, writeVars, modVars>>

\* confirmLogout (auth.js:331-346): signOut resolved, which runs the auth
\* callback with null, and confirmLogout's own resets after it.
confirmLogout ==
    /\ currentUser # NoUser
    /\ currentUser' = NoUser
    /\ currentUserProfile' = NoProfile
    /\ currentUserRole' = "user"
    /\ UNCHANGED <<authCallbacks, storeVars, feedVars, reactFeedVars, dom, navVars,
                   writeVars, modVars>>

\* --------------------------------------------- toggleReaction (forum.js:406-455)
\* The reaction documents of one user on one message.
ReactionsBy(messageId, userId) ==
    {d \in message_reactions : d.messageId = messageId /\ d.userId = userId}

\* existingReactions.docs[0]: a query's documents come in document-id order.
FirstDoc(docs) == CHOOSE d \in docs : \A e \in docs : d.id <= e.id

\* The call: the function is suspended at `await import('./auth.js')`.
toggleReaction(messageId, type) ==
    /\ Cardinality(toggles) < MaxCalls
    /\ Len(toggleLog) + Cardinality(toggles) < MaxToggles
    /\ toggles' = toggles \cup
           {[n |-> FreshCall(toggles), messageId |-> messageId, type |-> type,
             pc |-> "import", user |-> NoUser, existing |-> NoDoc,
             existingType |-> type]}
    /\ UNCHANGED <<storeVars, feedVars, reactFeedVars, dom, navVars, authVars, modVars,
                   user_profiles, moderators, sends, replyingTo, toggleLog,
                   lastAlert>>

\* A sign-in test that lets everybody pass.
PassesAnyone(user) == TRUE

\* if (!currentUser) { alert(...); return; }
SignedIn(user) == user # NoUser

\* forum.js:408-425: the user is read and checked, and the query is sent.
ToggleCheckUser(p) ==
    /\ p \in toggles
    /\ p.pc = "import"
    /\ toggles' = IF SignedIn(currentUser)
                  THEN (toggles \ {p}) \cup
                           {[p EXCEPT !.pc = "query", !.user = currentUser]}
                  ELSE toggles \ {p}
    /\ lastAlert' = IF SignedIn(currentUser) THEN lastAlert
                    ELSE "Debes iniciar sesion para reaccionar"
    /\ UNCHANGED <<storeVars, feedVars, reactFeedVars, dom, navVars, authVars, modVars,
                   user_profiles, moderators, sends, replyingTo, toggleLog>>

\* forum.js:425-447: getDocs resolved (ok) and the write it calls for is sent, or
\* getDocs was rejected and the catch block ends the call.
ToggleQuery(p, ok) ==
    /\ p \in toggles
    /\ p.pc = "query"
    /\ LET found == ReactionsBy(p.messageId, p.user)
       IN  toggles' =
             IF ~ok THEN toggles \ {p}
             ELSE IF found = {}
                  THEN (toggles \ {p}) \cup {[p EXCEPT !.pc = "write"]}
                  ELSE (toggles \ {p}) \cup
                           {[p EXCEPT !.pc = "write",
                                      !.existing = FirstDoc(found).id,
                                      !.existingType = FirstDoc(found).type]}
    /\ lastAlert' = IF ok THEN lastAlert ELSE "Error al reaccionar"
    /\ UNCHANGED <<storeVars, feedVars, reactFeedVars, dom, navVars, authVars, modVars,
                   user_profiles, moderators, sends, replyingTo, toggleLog>>

\* A write that always adds a document, whatever the query found.
AlwaysAdd(p) ==
    message_reactions \cup
        {[id |-> FreshReactionId, messageId |-> p.messageId, userId |-> p.user,
          type |-> p.type]}

\* forum.js:428-447: deleteDoc of a reaction of the same type, updateDoc of one
\* of the other type, addDoc when the query found none.
ToggleWriteResult(p) ==
    IF p.existing # NoDoc
    THEN IF p.existingType = p.type
         THEN {d \in message_reactions : d.id # p.existing}
         ELSE {IF d.id = p.existing THEN [d EXCEPT !.type = p.type] ELSE d :
                  d \in message_reactions}
    ELSE message_reactions \cup
             {[id |-> FreshReactionId, messageId |-> p.messageId, userId |-> p.user,
               type |-> p.type]}

\* The write is applied by the store (ok) or rejected; updateDoc of a document
\* that no longer exists is rejected.  Either way the call ends.
ToggleWrite(p, ok) ==
    /\ p \in toggles
    /\ p.pc = "write"
    /\ toggles' = toggles \ {p}
    /\ LET applied ==
             /\ ok
             /\ (p.existing # NoDoc /\ p.existingType # p.type)
                    => \E d \in message_reactions : d.id = p.existing
       IN  IF applied
           THEN /\ p.existing = NoDoc => Cardinality(message_reactions) < MaxReactions
                /\ message_reactions' = ToggleWriteResult(p)
                /\ reactPending' = NotifyReactListeners(p.messageId)
                /\ toggleLog' = Append(toggleLog, [messageId |-> p.messageId, user |-> p.user,
                                                     type |-> p.type])
                /\ UNCHANGED lastAlert
           ELSE /\ lastAlert' = "Error al reaccionar"
                /\ UNCHANGED <<message_reactions, reactPending, toggleLog>>
    /\ UNCHANGED <<forum_messages, reactListeners, reactCallbacks, reactionsUnsubscribe,
                   messageReactions, feedVars, dom, navVars, authVars, modVars,
                   user_profiles, moderators, sends, replyingTo>>

\* ------------------------------------------------ sendMessage (forum.js:285-346)
Texts == {"", "hola"}

\* addDoc gives the new message document an id no other document has.
FreshMessageId == Cardinality(DOMAIN forum_messages) + 1

\* The call: the function is suspended at its two `await import`.
sendMessage ==
    /\ Cardinality(sends) < MaxInflight
    /\ sends' = sends \cup
           {[n |-> FreshCall(sends), pc |-> "import", user |-> NoUser,
             username |-> "", userRole |-> "user", context |-> "global",
             text |-> "", timestamp |-> 0, replyTo |-> NoReply, count |-> 0]}
    /\ UNCHANGED <<storeVars, feedVars, reactFeedVars, dom, navVars, authVars, modVars,
                   user_profiles, moderators, toggles, replyingTo, toggleLog,
                   lastAlert>>

\* A username test that lets every profile pass.
AnyProfile(profile) == TRUE

\* if (!profile || !profile.username) { alert(...); return; }
HasUsername(profile) == profile.exists /\ profile.username # ""

\* forum.js:290-331: the three checks (signed in, has a username, has a text),
\* messageData is built from the module state and Date.now(), addDoc is sent.
SendCheckUser(p, text, now) ==
    /\ p \in sends
    /\ p.pc = "import"
    /\ sends' = IF /\ SignedIn(currentUser)
                   /\ HasUsername(currentUserProfile)
                   /\ text # ""
                THEN (sends \ {p}) \cup
                         {[p EXCEPT !.pc = "addDoc", !.user = currentUser,
                                    !.username = currentUserProfile.username,
                                    !.userRole = currentUserRole,
                                    !.context = currentForumContext,
                                    !.text = text,
                                    !.timestamp = now, !.replyTo = replyingTo]}
                ELSE sends \ {p}
    /\ lastAlert' = IF ~SignedIn(currentUser)
                    THEN "Debes iniciar sesion para enviar mensajes."
                    ELSE IF ~HasUsername(currentUserProfile)
                         THEN "Por favor establece tu nombre de usuario primero."
                         ELSE lastAlert
    /\ UNCHANGED <<storeVars, feedVars, reactFeedVars, dom, navVars, authVars, modVars,
                   user_profiles, moderators, toggles, replyingTo, toggleLog>>

\* forum.js:331-334: addDoc was applied (ok) and the comment count is read next,
\* or it was rejected and the catch block ends the call.
SendAddDoc(p, ok) ==
    /\ p \in sends
    /\ p.pc = "addDoc"
    /\ IF ok
       THEN /\ Cardinality(DOMAIN forum_messages) < MaxMsgs
            /\ forum_messages' =
                   [id \in DOMAIN forum_messages \cup {FreshMessageId} |->
                       IF id = FreshMessageId
                       THEN [context |-> p.context, userId |-> p.user,
                             user |-> p.username, userRole |-> p.userRole,
                             text |-> p.text, timestamp |-> p.timestamp,
                             deleted |-> FALSE, deletedBy |-> NoUser, deletedAt |-> NoTime,
                             replyTo |-> p.replyTo]
                       ELSE forum_messages[id]]
            /\ msgPending' = NotifyMsgListeners(p.context)
            /\ sends' = (sends \ {p}) \cup {[p EXCEPT !.pc = "getDoc"]}
       ELSE /\ sends' = sends \ {p}
            /\ UNCHANGED <<forum_messages, msgPending>>
    /\ lastAlert' = IF ok THEN lastAlert ELSE "Error al enviar mensaje."
    /\ UNCHANGED <<message_reactions, msgListeners, msgCallbacks,
                   activeForumUnsubscribe, currentForumContext, reactFeedVars, dom,
                   navVars, authVars, modVars, user_profiles, moderators, toggles, replyingTo,
                   toggleLog>>

\* incrementUserCommentCount (user_stats.js:181-184): getDoc resolved; the count
\* is written next when the profile exists, and an error is caught there.
SendGetCount(p, ok) ==
    /\ p \in sends
    /\ p.pc = "getDoc"
    /\ sends' = (sends \ {p}) \cup
           {IF ok /\ user_profiles[p.user].exists
            THEN [p EXCEPT !.pc = "setDoc",
                           !.count = user_profiles[p.user].commentCount]
            ELSE [p EXCEPT !.pc = "finish"]}
    /\ UNCHANGED <<storeVars, feedVars, reactFeedVars, dom, navVars, authVars, modVars,
                   user_profiles, moderators, toggles, replyingTo, toggleLog,
                   lastAlert>>

\* user_stats.js:185-186: setDoc(..., {commentCount: currentCount + 1}, {merge: true})
\* was applied (ok) or rejected.
SendSetCount(p, ok) ==
    /\ p \in sends
    /\ p.pc = "setDoc"
    /\ IF ok
       THEN user_profiles' = [user_profiles EXCEPT ![p.user].exists = TRUE,
                                                   ![p.user].commentCount = p.count + 1]
       ELSE UNCHANGED user_profiles
    /\ sends' = (sends \ {p}) \cup {[p EXCEPT !.pc = "finish"]}
    /\ UNCHANGED <<storeVars, feedVars, reactFeedVars, dom, navVars, authVars, modVars,
                   moderators, toggles, replyingTo, toggleLog,
                   lastAlert>>

\* A send that leaves the pending reply as it is.
KeepReply(reply) == reply

\* if (replyingTo) { cancelReply(); }
ReplyAfterSend(reply) == NoReply

\* forum.js:336-341: the text field is emptied and a pending reply is cancelled.
SendFinish(p) ==
    /\ p \in sends
    /\ p.pc = "finish"
    /\ replyingTo' = ReplyAfterSend(replyingTo)
    /\ sends' = sends \ {p}
    /\ UNCHANGED <<storeVars, feedVars, reactFeedVars, dom, navVars, authVars, modVars,
                   user_profiles, moderators, toggles, toggleLog,
                   lastAlert>>

\* startReply (forum.js:463-494)
startReply(messageId) ==
    /\ messageId \in DOMAIN forum_messages
    /\ replyingTo # messageId
    /\ replyingTo' = messageId
    /\ UNCHANGED <<storeVars, feedVars, reactFeedVars, dom, navVars, authVars, modVars,
                   user_profiles, moderators, toggles, sends, toggleLog,
                   lastAlert>>

\* cancelReply (forum.js:499-503)
cancelReply ==
    /\ replyingTo # NoReply
    /\ replyingTo' = NoReply
    /\ UNCHANGED <<storeVars, feedVars, reactFeedVars, dom, navVars, authVars, modVars,
                   user_profiles, moderators, toggles, sends, toggleLog,
                   lastAlert>>

\* ----------------------------------------- deleteMessage and moderation.js calls
\* Every uid that has documents: the two users and the developer.
Uids == Users \cup {DEVELOPER_UID}
\* The store hands documents over in document-id order ('S' sorts before 'u').
UidOrder == <<DEVELOPER_UID, "u1", "u2">>

\* A muted_users document that does not exist.
NoMute == [exists |-> FALSE, expiresAt |-> 0]
\* Nothing has returned yet.
NoReturn == [op |-> "", uid |-> NoUser, value |-> FALSE]

\* What no deleteMessage or moderation.js step assigns.
modFrame == <<message_reactions, msgListeners, msgCallbacks, activeForumUnsubscribe,
              currentForumContext, reactFeedVars, dom, navVars, authVars, toggles,
              sends, replyingTo, toggleLog, clock>>

\* A call that is suspended at its first await.
NewCall(op, pc, arg, messageId, duration) ==
    [n |-> FreshCall(modCalls), op |-> op, pc |-> pc, arg |-> arg, uid |-> NoUser,
     messageId |-> messageId, duration |-> duration, at |-> 0, data |-> NoProfile,
     todo |-> <<>>]

\* The function returns `value` to its caller.
Return(p, value) == returned' = [op |-> p.op, uid |-> p.uid, value |-> value]

\* Date.now() advances.
Tick ==
    /\ clock < MaxClock
    /\ clock' = clock + 1
    /\ UNCHANGED <<storeVars, feedVars, reactFeedVars, dom, navVars, authVars, writeVars,
                   muted_users, banned_users, modCalls, returned>>

\* if (role !== 'developer' && role !== 'moderator') { alert(...); return; }
CanDelete(role) == role \in {"developer", "moderator"}

\* A delete that also blanks the text.
WipeDelete(message, uid, now) ==
    [message EXCEPT !.deleted = TRUE, !.deletedBy = uid, !.deletedAt = now, !.text = ""]

\* updateDoc(..., {deleted: true, deletedBy: user.uid, deletedAt: Date.now()})
SoftDelete(message, uid, now) ==
    [message EXCEPT !.deleted = TRUE, !.deletedBy = uid, !.deletedAt = now]

\* deleteMessage (forum.js:373-381): the confirm dialog was accepted and the
\* function is suspended at `await import('./auth.js')`.
deleteMessage(messageId) ==
    /\ Cardinality(modCalls) < MaxModCalls
    /\ modCalls' = modCalls \cup {NewCall("deleteMessage", "import", "", messageId, 0)}
    /\ UNCHANGED <<forum_messages, msgPending, user_profiles, moderators, lastAlert,
                   muted_users, banned_users, returned, modFrame>>

\* forum.js:382-393: the viewer and the role the session holds are read, the role
\* is checked, the update is built (user.uid throws when nobody is signed in) and
\* sent.
DeleteCheckRole(p) ==
    /\ p \in modCalls
    /\ p.op = "deleteMessage" /\ p.pc = "import"
    /\ IF ~CanDelete(currentUserRole)
       THEN /\ lastAlert' = "No tienes permisos para borrar mensajes"
            /\ modCalls' = modCalls \ {p}
       ELSE IF currentUser = NoUser
            THEN /\ lastAlert' = "Error al borrar mensaje"
                 /\ modCalls' = modCalls \ {p}
            ELSE /\ modCalls' = (modCalls \ {p}) \cup
                        {[p EXCEPT !.pc = "updateDoc", !.uid = currentUser, !.at = clock]}
                 /\ UNCHANGED lastAlert
    /\ UNCHANGED <<forum_messages, msgPending, user_profiles, moderators,
                   muted_users, banned_users, returned, modFrame>>

\* forum.js:389-398: updateDoc was applied (ok) or rejected.
DeleteUpdateDoc(p, ok) ==
    /\ p \in modCalls
    /\ p.op = "deleteMessage" /\ p.pc = "updateDoc"
    /\ modCalls' = modCalls \ {p}
    /\ IF ok /\ p.messageId \in DOMAIN forum_messages
       THEN /\ forum_messages' =
                   [forum_messages EXCEPT
                       ![p.messageId] = SoftDelete(forum_messages[p.messageId], p.uid, p.at)]
            /\ msgPending' = NotifyMsgListeners(forum_messages[p.messageId].context)
            /\ UNCHANGED lastAlert
       ELSE /\ lastAlert' = "Error al borrar mensaje"
            /\ UNCHANGED <<forum_messages, msgPending>>
    /\ UNCHANGED <<user_profiles, moderators, muted_users, banned_users, returned,
                   modFrame>>

\* ----------------------------------------------- the moderator registry
\* A developer test nobody passes.
NobodyIsDeveloper(uid) == FALSE

\* if (uid === DEVELOPER_UID) (moderation.js:289, 565, 636)
IsDeveloper(uid) == uid = DEVELOPER_UID

\* The developer's uid as it is typed with a blank in front of it.
PaddedDeveloperUid == " SvMj82K5gNXub6StrHjz4JVpRB83"

\* String.prototype.trim, on the strings that are typed into the forms.
Trim(text) ==
    CASE text = PaddedDeveloperUid -> DEVELOPER_UID
      [] text = " beto" -> "beto"
      [] OTHER -> text

\* addModerator (moderation.js:280-296): the trimmed uid is refused at once when
\* it is the developer's; any other uid has its profile read.
addModerator(uid) ==
    /\ Cardinality(modCalls) < MaxModCalls
    /\ IF IsDeveloper(Trim(uid))
       THEN /\ lastAlert' = "El desarrollador ya tiene todos los permisos"
            /\ UNCHANGED modCalls
       ELSE /\ modCalls' = modCalls \cup
                   {NewCall("addModerator", "getDoc", Trim(uid), 0, 0)}
            /\ UNCHANGED lastAlert
    /\ UNCHANGED <<forum_messages, msgPending, user_profiles, moderators,
                   muted_users, banned_users, returned, modFrame>>

\* moderation.js:296-310: getDoc resolved; a uid without a profile is refused,
\* otherwise the registry entry is written.
AddModGetDoc(p, ok) ==
    /\ p \in modCalls
    /\ p.op = "addModerator" /\ p.pc = "getDoc"
    /\ IF ok /\ user_profiles[p.arg].exists
       THEN /\ modCalls' = (modCalls \ {p}) \cup
                   {[p EXCEPT !.pc = "setModerator", !.uid = p.arg,
                              !.data = user_profiles[p.arg]]}
            /\ UNCHANGED lastAlert
       ELSE /\ modCalls' = modCalls \ {p}
            /\ lastAlert' = IF ok THEN "No se encontro un usuario con ese UID"
                            ELSE "Error al agregar moderador"
    /\ UNCHANGED <<forum_messages, msgPending, user_profiles, moderators,
                   muted_users, banned_users, returned, modFrame>>

\* moderation.js:305-316: setDoc(moderators/uid) was applied (ok) or rejected.
AddModSetModerator(p, ok) ==
    /\ p \in modCalls
    /\ p.op = "addModerator" /\ p.pc = "setModerator"
    /\ IF ok
       THEN /\ moderators' = moderators \cup {p.uid}
            /\ modCalls' = (modCalls \ {p}) \cup {[p EXCEPT !.pc = "setProfile"]}
            /\ UNCHANGED lastAlert
       ELSE /\ modCalls' = modCalls \ {p}
            /\ lastAlert' = "Error al agregar moderador"
            /\ UNCHANGED moderators
    /\ UNCHANGED <<forum_messages, msgPending, user_profiles,
                   muted_users, banned_users, returned, modFrame>>

\* moderation.js:313-328: setDoc(user_profiles/uid, {...userData, role: 'moderator'})
\* was applied (ok) or rejected.
AddModSetProfile(p, ok) ==
    /\ p \in modCalls
    /\ p.op = "addModerator" /\ p.pc = "setProfile"
    /\ modCalls' = modCalls \ {p}
    /\ IF ok
       THEN /\ user_profiles' = [user_profiles EXCEPT
                                    ![p.uid] = [p.data EXCEPT !.role = "moderator"]]
            /\ lastAlert' = "ahora es moderador"
       ELSE /\ lastAlert' = "Error al agregar moderador"
            /\ UNCHANGED user_profiles
    /\ UNCHANGED <<forum_messages, msgPending, moderators,
                   muted_users, banned_users, returned, modFrame>>

\* removeModerator (moderation.js:335-342): the confirm dialog was accepted and
\* the profile is read.
removeModerator(uid) ==
    /\ Cardinality(modCalls) < MaxModCalls
    /\ modCalls' = modCalls \cup {NewCall("removeModerator", "getDoc", uid, 0, 0)}
    /\ UNCHANGED <<forum_messages, msgPending, user_profiles, moderators, lastAlert,
                   muted_users, banned_users, returned, modFrame>>

\* moderation.js:342-354: getDoc resolved; the profile's role is written when the
\* profile exists, the registry entry is deleted next.
RemoveModGetDoc(p, ok) ==
    /\ p \in modCalls
    /\ p.op = "removeModerator" /\ p.pc = "getDoc"
    /\ IF ok
       THEN /\ modCalls' = (modCalls \ {p}) \cup
                   {[p EXCEPT !.pc = IF user_profiles[p.arg].exists
                                     THEN "setProfile" ELSE "deleteDoc",
                              !.uid = p.arg, !.data = user_profiles[p.arg]]}
            /\ UNCHANGED lastAlert
       ELSE /\ modCalls' = modCalls \ {p}
            /\ lastAlert' = "Error al quitar moderador"
    /\ UNCHANGED <<forum_messages, msgPending, user_profiles, moderators,
                   muted_users, banned_users, returned, modFrame>>

\* moderation.js:347-350: setDoc(user_profiles/uid, {...userData, role: 'user'})
RemoveModSetProfile(p, ok) ==
    /\ p \in modCalls
    /\ p.op = "removeModerator" /\ p.pc = "setProfile"
    /\ IF ok
       THEN /\ user_profiles' = [user_profiles EXCEPT
                                    ![p.uid] = [p.data EXCEPT !.role = "user"]]
            /\ modCalls' = (modCalls \ {p}) \cup {[p EXCEPT !.pc = "deleteDoc"]}
            /\ UNCHANGED lastAlert
       ELSE /\ modCalls' = modCalls \ {p}
            /\ lastAlert' = "Error al quitar moderador"
            /\ UNCHANGED user_profiles
    /\ UNCHANGED <<forum_messages, msgPending, moderators,
                   muted_users, banned_users, returned, modFrame>>

\* moderation.js:354-362: deleteDoc(moderators/uid) was applied (ok) or rejected.
RemoveModDeleteDoc(p, ok) ==
    /\ p \in modCalls
    /\ p.op = "removeModerator" /\ p.pc = "deleteDoc"
    /\ modCalls' = modCalls \ {p}
    /\ IF ok
       THEN /\ moderators' = moderators \ {p.uid}
            /\ lastAlert' = "Moderador removido"
       ELSE /\ lastAlert' = "Error al quitar moderador"
            /\ UNCHANGED moderators
    /\ UNCHANGED <<forum_messages, msgPending, user_profiles,
                   muted_users, banned_users, returned, modFrame>>

\* ------------------------------------------------------------ mutes and bans
\* String.prototype.toLowerCase, on the user names in use.
ToLower(text) ==
    CASE text = "Dev" -> "dev"
      [] text = "DEV" -> "dev"
      [] OTHER -> text

\* searchUserByUsername (moderation.js:526-547): the first profile, in document
\* order, whose username equals the trimmed name when both are lowercased;
\* null (NoUser) when there is none.
searchUserByUsername(username) ==
    LET wanted == ToLower(Trim(username))
        hits == {i \in 1..Len(UidOrder) :
                    /\ UidOrder[i] \in DOMAIN user_profiles
                    /\ user_profiles[UidOrder[i]].exists
                    /\ user_profiles[UidOrder[i]].username # ""
                    /\ ToLower(user_profiles[UidOrder[i]].username) = wanted}
    IN  IF wanted = "" \/ hits = {} THEN NoUser ELSE UidOrder[Min(hits)]

\* Date.now() + (durationMinutes * 60 * 1000), the clock counting minutes.
ExpiresAt(now, durationMinutes) == now + durationMinutes

\* An expiry test that takes the moment of expiry for expired.
ExpiredAtOrBefore(data, now) == data.expiresAt # 0 /\ data.expiresAt <= now

\* data.expiresAt && data.expiresAt < now (moderation.js:125, 699, 777)
Expired(data, now) == data.expiresAt # 0 /\ data.expiresAt < now

\* loadMutedUsers (moderation.js:755-763) and loadModMutedUsers (104-112): the
\* list's container exists and the collection is read.
loadMutedUsers(op) ==
    /\ Cardinality(modCalls) < MaxModCalls
    /\ modCalls' = modCalls \cup {NewCall(op, "getDocs", "", 0, 0)}
    /\ UNCHANGED <<forum_messages, msgPending, user_profiles, moderators, lastAlert,
                   muted_users, banned_users, returned, modFrame>>

\* The calls in flight when p has ended; with listShown, p has called
\* loadMutedUsers() on its way out and the list's container exists.
AfterCall(p, listShown) ==
    (modCalls \ {p}) \cup
        (IF listShown
         THEN {[NewCall("loadMutedUsers", "getDocs", "", 0, 0) EXCEPT !.n = p.n]}
         ELSE {})

\* The expired documents of the snapshot, in document order.
ExpiredUids(now) ==
    LET Gone(uid) == /\ uid \in DOMAIN muted_users
                     /\ muted_users[uid].exists
                     /\ Expired(muted_users[uid], now)
    IN  SelectSeq(UidOrder, Gone)

\* moderation.js:763-781 / 112-128: getDocs resolved; now = Date.now(); the
\* expired documents of the snapshot are deleted one after the other.
LoadGetDocs(p, ok) ==
    /\ p \in modCalls
    /\ p.op \in {"loadMutedUsers", "loadModMutedUsers"} /\ p.pc = "getDocs"
    /\ modCalls' = IF ok /\ ExpiredUids(clock) # <<>>
                   THEN (modCalls \ {p}) \cup
                            {[p EXCEPT !.pc = "deleteDoc", !.todo = ExpiredUids(clock)]}
                   ELSE modCalls \ {p}
    /\ UNCHANGED <<forum_messages, msgPending, user_profiles, moderators, lastAlert,
                   muted_users, banned_users, returned, modFrame>>

\* moderation.js:779 / 127: deleteDoc of the next expired document was applied
\* (ok), or it was rejected and the catch block ends the loop.
LoadDeleteExpired(p, ok) ==
    /\ p \in modCalls
    /\ p.op \in {"loadMutedUsers", "loadModMutedUsers"} /\ p.pc = "deleteDoc"
    /\ IF ok
       THEN /\ muted_users' = [muted_users EXCEPT ![Head(p.todo)] = NoMute]
            /\ modCalls' = IF Len(p.todo) > 1
                           THEN (modCalls \ {p}) \cup {[p EXCEPT !.todo = Tail(p.todo)]}
                           ELSE modCalls \ {p}
       ELSE /\ modCalls' = modCalls \ {p}
            /\ UNCHANGED muted_users
    /\ UNCHANGED <<forum_messages, msgPending, user_profiles, moderators, lastAlert,
                   banned_users, returned, modFrame>>

\* muteUser (moderation.js:555-558): the user name is looked up.
muteUser(username, durationMinutes) ==
    /\ Cardinality(modCalls) < MaxModCalls
    /\ modCalls' = modCalls \cup {NewCall("muteUser", "search", username, 0, durationMinutes)}
    /\ UNCHANGED <<forum_messages, msgPending, user_profiles, moderators, lastAlert,
                   muted_users, banned_users, returned, modFrame>>

\* moderation.js:558-580: the lookup resolved (null when the read failed); an
\* unknown name and the developer are refused, otherwise the mute is written.
MuteSearch(p, ok) ==
    /\ p \in modCalls
    /\ p.op = "muteUser" /\ p.pc = "search"
    /\ LET user == IF ok THEN searchUserByUsername(p.arg) ELSE NoUser
       IN  IF user = NoUser
           THEN /\ lastAlert' = "No se encontro un usuario con ese nombre"
                /\ modCalls' = modCalls \ {p}
                /\ Return(p, FALSE)
           ELSE IF IsDeveloper(user)
                THEN /\ lastAlert' = "No puedes mutear al desarrollador"
                     /\ modCalls' = modCalls \ {p}
                     /\ Return([p EXCEPT !.uid = user], FALSE)
                ELSE /\ modCalls' = (modCalls \ {p}) \cup
                            {[p EXCEPT !.pc = "setDoc", !.uid = user,
                                       !.at = ExpiresAt(clock, p.duration)]}
                     /\ UNCHANGED <<lastAlert, returned>>
    /\ UNCHANGED <<forum_messages, msgPending, user_profiles, moderators,
                   muted_users, banned_users, modFrame>>

\* moderation.js:574-601: setDoc(muted_users/uid) was applied (ok) or rejected.
MuteSetDoc(p, ok, listShown) ==
    /\ p \in modCalls
    /\ p.op = "muteUser" /\ p.pc = "setDoc"
    /\ IF ok
       THEN /\ muted_users' = [muted_users EXCEPT
                                  ![p.uid] = [exists |-> TRUE, expiresAt |-> p.at]]
            /\ lastAlert' = "ha sido muteado"
            /\ modCalls' = AfterCall(p, listShown)
            /\ Return(p, TRUE)
       ELSE /\ lastAlert' = "Error al mutear usuario"
            /\ modCalls' = modCalls \ {p}
            /\ Return(p, FALSE)
            /\ UNCHANGED muted_users
    /\ UNCHANGED <<forum_messages, msgPending, user_profiles, moderators,
                   banned_users, modFrame>>

\* unmuteUser (moderation.js:608-612): the confirm dialog was accepted and the
\* delete is sent.
unmuteUser(uid) ==
    /\ Cardinality(modCalls) < MaxModCalls
    /\ modCalls' = modCalls \cup
           {[NewCall("unmuteUser", "deleteDoc", uid, 0, 0) EXCEPT !.uid = uid]}
    /\ UNCHANGED <<forum_messages, msgPending, user_profiles, moderators, lastAlert,
                   muted_users, banned_users, returned, modFrame>>

\* moderation.js:612-618: deleteDoc(muted_users/uid) was applied (ok) or rejected.
UnmuteDeleteDoc(p, ok, listShown) ==
    /\ p \in modCalls
    /\ p.op = "unmuteUser" /\ p.pc = "deleteDoc"
    /\ IF ok
       THEN /\ muted_users' = [muted_users EXCEPT ![p.uid] = NoMute]
            /\ lastAlert' = "Muteo removido"
            /\ modCalls' = AfterCall(p, listShown)
       ELSE /\ lastAlert' = "Error al quitar muteo"
            /\ modCalls' = modCalls \ {p}
            /\ UNCHANGED muted_users
    /\ UNCHANGED <<forum_messages, msgPending, user_profiles, moderators,
                   banned_users, returned, modFrame>>

\* banUser (moderation.js:626-629): the user name is looked up.
banUser(username) ==
    /\ Cardinality(modCalls) < MaxModCalls
    /\ modCalls' = modCalls \cup {NewCall("banUser", "search", username, 0, 0)}
    /\ UNCHANGED <<forum_messages, msgPending, user_profiles, moderators, lastAlert,
                   muted_users, banned_users, returned, modFrame>>

\* moderation.js:629-651: the lookup resolved; an unknown name, the developer and
\* a declined confirm dialog end the call, otherwise the ban is written.
BanSearch(p, ok, confirmed) ==
    /\ p \in modCalls
    /\ p.op = "banUser" /\ p.pc = "search"
    /\ LET user == IF ok THEN searchUserByUsername(p.arg) ELSE NoUser
       IN  IF user = NoUser
           THEN /\ lastAlert' = "No se encontro un usuario con ese nombre"
                /\ modCalls' = modCalls \ {p}
                /\ Return(p, FALSE)
           ELSE IF IsDeveloper(user)
                THEN /\ lastAlert' = "No puedes banear al desarrollador"
                     /\ modCalls' = modCalls \ {p}
                     /\ Return([p EXCEPT !.uid = user], FALSE)
                ELSE IF ~confirmed
                     THEN /\ modCalls' = modCalls \ {p}
                          /\ Return([p EXCEPT !.uid = user], FALSE)
                          /\ UNCHANGED lastAlert
                     ELSE /\ modCalls' = (modCalls \ {p}) \cup
                                 {[p EXCEPT !.pc = "setDoc", !.uid = user]}
                          /\ UNCHANGED <<lastAlert, returned>>
    /\ UNCHANGED <<forum_messages, msgPending, user_profiles, moderators,
                   muted_users, banned_users, modFrame>>

\* moderation.js:647-655, 662-666: setDoc(banned_users/uid) was applied (ok) and
\* the mute's delete is sent, or it was rejected.
BanSetDoc(p, ok) ==
    /\ p \in modCalls
    /\ p.op = "banUser" /\ p.pc = "setDoc"
    /\ IF ok
       THEN /\ banned_users' = banned_users \cup {p.uid}
            /\ modCalls' = (modCalls \ {p}) \cup {[p EXCEPT !.pc = "deleteDoc"]}
            /\ UNCHANGED <<lastAlert, returned>>
       ELSE /\ lastAlert' = "Error al banear usuario"
            /\ modCalls' = modCalls \ {p}
            /\ Return(p, FALSE)
            /\ UNCHANGED banned_users
    /\ UNCHANGED <<forum_messages, msgPending, user_profiles, moderators,
                   muted_users, modFrame>>

\* moderation.js:654-661: deleteDoc(muted_users/uid) was applied (ok), or it was
\* rejected and the error is ignored; the call returns true either way.
BanDeleteMute(p, ok, listShown) ==
    /\ p \in modCalls
    /\ p.op = "banUser" /\ p.pc = "deleteDoc"
    /\ muted_users' = IF ok THEN [muted_users EXCEPT ![p.uid] = NoMute] ELSE muted_users
    /\ lastAlert' = "ha sido baneado permanentemente"
    /\ modCalls' = AfterCall(p, listShown)
    /\ Return(p, TRUE)
    /\ UNCHANGED <<forum_messages, msgPending, user_profiles, moderators,
                   banned_users, modFrame>>

\* unbanUser (moderation.js:673-677): the confirm dialog was accepted and the
\* delete is sent.
unbanUser(uid) ==
    /\ Cardinality(modCalls) < MaxModCalls
    /\ modCalls' = modCalls \cup
           {[NewCall("unbanUser", "deleteDoc", uid, 0, 0) EXCEPT !.uid = uid]}
    /\ UNCHANGED <<forum_messages, msgPending, user_profiles, moderators, lastAlert,
                   muted_users, banned_users, returned, modFrame>>

\* moderation.js:677-683: deleteDoc(banned_users/uid) was applied (ok) or rejected.
UnbanDeleteDoc(p, ok) ==
    /\ p \in modCalls
    /\ p.op = "unbanUser" /\ p.pc = "deleteDoc"
    /\ modCalls' = modCalls \ {p}
    /\ IF ok
       THEN /\ banned_users' = banned_users \ {p.uid}
            /\ lastAlert' = "Baneo removido"
       ELSE /\ lastAlert' = "Error al quitar baneo"
            /\ UNCHANGED banned_users
    /\ UNCHANGED <<forum_messages, msgPending, user_profiles, moderators,
                   muted_users, returned, modFrame>>

\* isUserMuted (moderation.js:691-693): the mute document is read.
isUserMuted(uid) ==
    /\ Cardinality(modCalls) < MaxModCalls
    /\ modCalls' = modCalls \cup
           {[NewCall("isUserMuted", "getDoc", uid, 0, 0) EXCEPT !.uid = uid]}
    /\ UNCHANGED <<forum_messages, msgPending, user_profiles, moderators, lastAlert,
                   muted_users, banned_users, returned, modFrame>>

\* moderation.js:693-709: getDoc resolved, or was rejected (null); no document is
\* null, an expired one is deleted, any other is returned.
MutedGetDoc(p, ok) ==
    /\ p \in modCalls
    /\ p.op = "isUserMuted" /\ p.pc = "getDoc"
    /\ IF ~ok \/ ~muted_users[p.uid].exists
       THEN /\ modCalls' = modCalls \ {p}
            /\ Return(p, FALSE)
       ELSE IF Expired(muted_users[p.uid], clock)
            THEN /\ modCalls' = (modCalls \ {p}) \cup {[p EXCEPT !.pc = "deleteDoc"]}
                 /\ UNCHANGED returned
            ELSE /\ modCalls' = modCalls \ {p}
                 /\ Return(p, TRUE)
    /\ UNCHANGED <<forum_messages, msgPending, user_profiles, moderators, lastAlert,
                   muted_users, banned_users, modFrame>>

\* moderation.js:701-709: deleteDoc of the expired mute was applied (ok) or
\* rejected; null is returned either way.
MutedDeleteDoc(p, ok) ==
    /\ p \in modCalls
    /\ p.op = "isUserMuted" /\ p.pc = "deleteDoc"
    /\ muted_users' = IF ok THEN [muted_users EXCEPT ![p.uid] = NoMute] ELSE muted_users
    /\ modCalls' = modCalls \ {p}
    /\ Return(p, FALSE)
    /\ UNCHANGED <<forum_messages, msgPending, user_profiles, moderators, lastAlert,
                   banned_users, modFrame>>

\* isUserBanned (moderation.js:717-719): the ban document is read.
isUserBanned(uid) ==
    /\ Cardinality(modCalls) < MaxModCalls
    /\ modCalls' = modCalls \cup
           {[NewCall("isUserBanned", "getDoc", uid, 0, 0) EXCEPT !.uid = uid]}
    /\ UNCHANGED <<forum_messages, msgPending, user_profiles, moderators, lastAlert,
                   muted_users, banned_users, returned, modFrame>>

\* moderation.js:719-725: getDoc resolved, or was rejected (null).
BannedGetDoc(p, ok) ==
    /\ p \in modCalls
    /\ p.op = "isUserBanned" /\ p.pc = "getDoc"
    /\ modCalls' = modCalls \ {p}
    /\ Return(p, ok /\ p.uid \in banned_users)
    /\ UNCHANGED <<forum_messages, msgPending, user_profiles, moderators, lastAlert,
                   muted_users, banned_users, modFrame>>

\* No mute, no ban, no call in flight, the clock at its start.
NoModeration ==
    /\ muted_users = [u \in Uids |-> NoMute]
    /\ banned_users = {}
    /\ clock = 0
    /\ modCalls = {}
    /\ returned = NoReturn

\* ------------------------------------------------ the lifecycle specification
\* The messages a page load may find in the store: ids 1..n, each in some context,
\* the newest document first in id order.
StoredMessage(id, context, timestamp, deleted) ==
    [context |-> context, userId |-> "u2", user |-> "beto", userRole |-> "user",
     text |-> "gol", timestamp |-> timestamp, deleted |-> deleted,
     deletedBy |-> IF deleted THEN "u2" ELSE NoUser,
     deletedAt |-> IF deleted THEN timestamp ELSE NoTime, replyTo |-> NoReply]

LifecycleStores ==
    UNION {{[id \in 1..n |-> StoredMessage(id, f[id], MaxMsgs + 1 - id, FALSE)] :
               f \in [1..n -> Contexts]} : n \in 0..MaxMsgs}

\* The client after construction: no listener, the forum's module state as
\* declared (forum.js:17-20, 174), the match list shown, nobody signed in.
ClientInit ==
    /\ msgListeners = {}
    /\ reactListeners = {}
    /\ msgPending = {}
    /\ reactPending = {}
    /\ msgCallbacks = {}
    /\ reactCallbacks = {}
    /\ activeForumUnsubscribe = NoSub
    /\ reactionsUnsubscribe = NoSub
    /\ currentForumContext = "global"
    /\ messageReactions = EmptyReactions
    /\ dom = [c \in Containers |-> Initial]
    /\ currentView = "matches"
    /\ selectedMatch = Null
    /\ currentUser = NoUser
    /\ currentUserProfile = NoProfile
    /\ currentUserRole = "user"
    /\ authCallbacks = {}
    /\ toggles = {}
    /\ sends = {}
    /\ replyingTo = NoReply
    /\ toggleLog = <<>>
    /\ lastAlert = ""

Init ==
    /\ forum_messages \in LifecycleStores
    /\ message_reactions = {}
    /\ user_profiles = [u \in Users |-> NoProfile]
    /\ moderators = {}
    /\ NoModeration
    /\ ClientInit

Next ==
    \/ navigateToForum
    \/ \E m \in Matches : openDetail(m)
    \/ \E t \in Tabs : switchTab(t)
    \/ closeDetail
    \/ navigateToMatches
    \/ \E l \in msgListeners : DeliverMsgSnapshot(l)
    \/ \E cb \in msgCallbacks : ResumeMsgCallback(cb)
    \/ \E l \in reactListeners : DeliverReactSnapshot(l)
    \/ \E cb \in reactCallbacks : ResumeReactCallback(cb)
    \/ \E id \in DOMAIN forum_messages : OtherClientDeletes(id)

Spec == Init /\ [][Next]_vars

\* ---------------------------------------------------- the subscription lifecycle
RegisteredMsgSubs == {l.id : l \in msgListeners}

\* C1: once initForum("match_42") has replaced the global forum, exactly one message
\* listener and at most one reaction listener are registered, and both belong to
\* match_42: the reaction listener watches no message of the global context.
C1_SwitchLeavesOnlyNewContext ==
    (activeForumUnsubscribe # NoSub /\ currentForumContext = "match_42") =>
        /\ Cardinality(msgListeners) = 1
        /\ \A l \in msgListeners : l.context = "match_42"
        /\ Cardinality(reactListeners) <= 1
        /\ \A l \in reactListeners :
              \A id \in l.ids : forum_messages[id].context = "match_42"

\* C2: at most one message listener is registered with the store, and
\* activeForumUnsubscribe is the handle of exactly that listener (null iff none).
C2_OneMessageListener ==
    /\ Cardinality(msgListeners) <= 1
    /\ RegisteredMsgSubs = {activeForumUnsubscribe} \ {NoSub}

\* C2's case: a forum was opened after another one had been rendered, and a
\* callback of the replaced listener is still in flight.
C2_Witness ==
    /\ currentForumContext = "match_42"
    /\ activeForumUnsubscribe # NoSub
    /\ dom["forum-messages"].kind = "list"
    /\ \E cb \in msgCallbacks : cb.sub # activeForumUnsubscribe

\* C3: a message callback whose subscription was cancelled while it was suspended
\* is discarded when it resumes: it renders nothing and leaves the reaction
\* listener alone.
C3_StaleCallbackDiscarded ==
    [][\A cb \in msgCallbacks :
          (cb \notin msgCallbacks' /\ cb.sub \notin RegisteredMsgSubs)
              => /\ dom' = dom
                 /\ reactListeners' = reactListeners
                 /\ reactionsUnsubscribe' = reactionsUnsubscribe]_vars

\* C4: while the match list is shown (the forum or the match detail was left), no
\* listener is registered and both handles are cleared.
C4_LeavingCancelsListeners ==
    currentView = "matches" =>
        /\ msgListeners = {}
        /\ reactListeners = {}
        /\ activeForumUnsubscribe = NoSub
        /\ reactionsUnsubscribe = NoSub

\* ------------------------------------------------- the ordering specification
\* The global forum with every content of up to MaxSnapMsgs documents: any
\* timestamps (equal ones included), any of them marked deleted.
OrderStores ==
    UNION {{[id \in 1..n |-> StoredMessage(id, "global", t[id], d[id])] :
               t \in [1..n -> 1..MaxTime], d \in [1..n -> BOOLEAN]} :
           n \in 0..MaxSnapMsgs}

InitOrder ==
    /\ forum_messages \in OrderStores
    /\ message_reactions = {}
    /\ user_profiles = [u \in Users |-> NoProfile]
    /\ moderators = {}
    /\ NoModeration
    /\ ClientInit

NextOrder ==
    \/ navigateToForum
    \/ \E l \in msgListeners : DeliverMsgSnapshot(l)
    \/ \E cb \in msgCallbacks : ResumeMsgCallback(cb)
    \/ \E l \in reactListeners : DeliverReactSnapshot(l)
    \/ \E cb \in reactCallbacks : ResumeReactCallback(cb)

SpecOrder == InitOrder /\ [][NextOrder]_vars

IdsOf(s) == [i \in 1..Len(s) |-> s[i].id]

\* C5: the sequence a delivered snapshot hands to rendering holds exactly the
\* snapshot's documents that are not marked deleted, each once, with their
\* timestamps non-decreasing, and that sequence is what is rendered.
C5_RenderedSequence ==
    [][/\ \A cb \in msgCallbacks' \ msgCallbacks :
            \E l \in msgListeners :
               /\ l.id = cb.sub
               /\ LET docs == SnapshotDocs(l.context)
                      visible == {docs[j].id : j \in {k \in 1..Len(docs) : ~docs[k].deleted}}
                      data == cb.messagesData
                  IN  /\ Range(IdsOf(data)) = visible
                      /\ Len(data) = Cardinality(visible)
                      /\ \A i \in 1..Len(data) :
                            data[i].timestamp = forum_messages[data[i].id].timestamp
                      /\ \A i, j \in 1..Len(data) :
                            i < j => data[i].timestamp <= data[j].timestamp
       /\ \A cb \in msgCallbacks \ msgCallbacks' :
            /\ dom'[cb.containerId].kind = "list"
            /\ IdsOf(dom'[cb.containerId].items) = IdsOf(cb.messagesData)]_vars

\* C5's case: a rendered sequence of two messages that the sort had to swap, from a
\* snapshot that also held a deleted document.
C5_Witness ==
    /\ dom["forum-messages"].kind = "list"
    /\ Len(dom["forum-messages"].items) = 2
    /\ dom["forum-messages"].items[1].id > dom["forum-messages"].items[2].id
    /\ \E id \in DOMAIN forum_messages : forum_messages[id].deleted

\* C6: a snapshot whose filtered result is empty always leaves the placeholder in
\* the container, never an empty list, and the placeholder is not the markup the
\* container starts with.
C6_EmptyIsPlaceholder ==
    /\ Placeholder # Initial
    /\ \A c \in Containers : dom[c].kind = "list" => Len(dom[c].items) > 0

\* ------------------------------------------------- the reaction specifications
\* The viewer of this client signs in as u1; u2 reacts from another client.
LocalUsers == {"u1"}
OtherUsers == Users \ LocalUsers

Profile(username) ==
    [exists |-> TRUE, username |-> username, commentCount |-> 0, role |-> "user"]

\* One message in the global forum; u1 may or may not have a profile, a username,
\* a moderators document.
InitWrite ==
    /\ forum_messages = [id \in 1..1 |-> StoredMessage(id, "global", 1, FALSE)]
    /\ message_reactions = {}
    /\ user_profiles \in [Users -> {NoProfile, Profile(""), Profile("ana")}]
    /\ \A u \in OtherUsers : user_profiles[u] = NoProfile
    /\ moderators \in SUBSET LocalUsers
    /\ NoModeration
    /\ ClientInit

InitReact ==
    /\ InitWrite
    /\ user_profiles = [u \in Users |-> NoProfile]
    /\ moderators = {}

SessionSteps ==
    \/ \E u \in LocalUsers \cup {NoUser} : AuthStateChanged(u)
    \/ \E cb \in authCallbacks : \E ok \in BOOLEAN : AuthProfileLoaded(cb, ok)
    \/ \E cb \in authCallbacks : \E ok \in BOOLEAN : AuthRoleLoaded(cb, ok)
    \/ confirmLogout

ToggleSteps ==
    \/ \E p \in toggles : ToggleCheckUser(p)
    \/ \E p \in toggles : \E ok \in BOOLEAN : ToggleQuery(p, ok)
    \/ \E p \in toggles : \E ok \in BOOLEAN : ToggleWrite(p, ok)

OtherClientSteps ==
    \/ \E m \in DOMAIN forum_messages : \E u \in OtherUsers : \E t \in ReactionTypes :
          OtherClientReacts(m, u, t)
    \/ \E d \in message_reactions : d.userId \in OtherUsers /\ OtherClientUnreacts(d)

\* Any toggleReaction calls, overlapping ones included.
NextReact ==
    \/ SessionSteps
    \/ \E m \in DOMAIN forum_messages : \E t \in ReactionTypes : toggleReaction(m, t)
    \/ ToggleSteps
    \/ OtherClientSteps

SpecReact == InitReact /\ [][NextReact]_vars

\* toggleReaction calls that run one after another: a call starts when none is
\* in flight.
NextReactSeq ==
    \/ SessionSteps
    \/ \E m \in DOMAIN forum_messages : \E t \in ReactionTypes :
          toggles = {} /\ toggleReaction(m, t)
    \/ ToggleSteps
    \/ OtherClientSteps

SpecReactSeq == InitReact /\ [][NextReactSeq]_vars

SendSteps ==
    \/ sendMessage
    \/ \E p \in sends : \E text \in Texts : \E now \in {MaxTime} :
          SendCheckUser(p, text, now)
    \/ \E p \in sends : \E ok \in BOOLEAN : SendAddDoc(p, ok)
    \/ \E p \in sends : \E ok \in BOOLEAN : SendGetCount(p, ok)
    \/ \E p \in sends : \E ok \in BOOLEAN : SendSetCount(p, ok)
    \/ \E p \in sends : SendFinish(p)
    \/ \E m \in DOMAIN forum_messages : startReply(m)
    \/ cancelReply

\* Signing in and out, sending, and reacting until a reaction is written.
NextWrite ==
    \/ SessionSteps
    \/ \E m \in DOMAIN forum_messages : \E t \in ReactionTypes :
          toggles = {} /\ toggleLog = <<>> /\ toggleReaction(m, t)
    \/ ToggleSteps
    \/ SendSteps

SpecWrite == InitWrite /\ [][NextWrite]_vars

\* C7: the store never holds two reaction documents of one user on one message,
\* whatever toggleReaction calls run and however they overlap.
C7_OneReactionPerPair ==
    \A m \in DOMAIN forum_messages : \A u \in Users :
        Cardinality(ReactionsBy(m, u)) <= 1

\* The types of the toggles of user u on message m whose write was applied.
TogglesOf(m, u) ==
    LET Mine(e) == e.messageId = m /\ e.user = u
        mine == SelectSeq(toggleLog, Mine)
    IN  [i \in 1..Len(mine) |-> mine[i].type]

\* C8: toggles of one viewer on one message that run one after another follow the
\* three cases (none: one record of the type; same type: no record; other type:
\* the same record with its type changed); so after n toggles of one type a
\* record exists iff n is odd, and like then dislike leaves one record that is
\* aggregated as userLike false, userDislike true.
C8_SequentialToggles ==
    [][/\ \A p \in toggles :
            (p.pc = "write" /\ p \notin toggles' /\ toggleLog' # toggleLog) =>
                LET before == ReactionsBy(p.messageId, p.user)
                    after == {d \in message_reactions' :
                                 d.messageId = p.messageId /\ d.userId = p.user}
                IN  /\ Cardinality(before) <= 1
                    /\ before = {} =>
                          /\ Cardinality(after) = 1
                          /\ \A d \in after : d.type = p.type
                    /\ \A d \in before :
                          /\ d.type = p.type => after = {}
                          /\ d.type # p.type => after = {[d EXCEPT !.type = p.type]}
       /\ toggles' = {} =>
            \A m \in DOMAIN forum_messages' : \A u \in LocalUsers :
               LET log == TogglesOf(m, u)'
                   stored == {d \in message_reactions' : d.messageId = m /\ d.userId = u}
                   all == {d \in message_reactions' : d.messageId = m}
               IN  /\ (\A i \in 1..Len(log) : log[i] = log[1]) =>
                          (stored # {} <=> Len(log) % 2 = 1)
                   /\ log = <<"like", "dislike">> =>
                          /\ Cardinality(stored) = 1
                          /\ ~Aggregate(all, u)[m].userLike
                          /\ Aggregate(all, u)[m].userDislike]_vars

\* C8's case: like then dislike were written one after the other, and u2 has
\* reacted to the same message.
C8_Witness ==
    /\ toggles = {}
    /\ TogglesOf(1, "u1") = <<"like", "dislike">>
    /\ \E d \in message_reactions : d.userId = "u1" /\ d.type = "dislike"
    /\ \E d \in message_reactions : d.userId = "u2"

LoginAlerts ==
    {"Debes iniciar sesion para reaccionar", "Debes iniciar sesion para enviar mensajes."}

BatchStores ==
    UNION {{[id \in 1..n |->
                StoredMessage(id, "global", IF up THEN id ELSE n + 1 - id, FALSE)] :
               up \in BOOLEAN} :
           n \in 0..MaxBatchMsgs}

\* The messages other clients react to: the first and the last written.
BatchTargets == {1, Cardinality(DOMAIN forum_messages)} \cap DOMAIN forum_messages

InitBatch ==
    /\ forum_messages \in BatchStores
    /\ message_reactions = {}
    /\ user_profiles = [u \in Users |-> NoProfile]
    /\ moderators = {}
    /\ NoModeration
    /\ ClientInit

NextBatch ==
    \/ navigateToForum
    \/ \E l \in msgListeners : DeliverMsgSnapshot(l)
    \/ \E cb \in msgCallbacks : ResumeMsgCallback(cb)
    \/ \E l \in reactListeners : DeliverReactSnapshot(l)
    \/ \E cb \in reactCallbacks : ResumeReactCallback(cb)
    \/ \E m \in BatchTargets : \E t \in ReactionTypes : OtherClientReacts(m, "u2", t)

SpecBatch == InitBatch /\ [][NextBatch]_vars

\* C10: when a snapshot of n >= 1 visible messages has been processed, exactly
\* one reaction listener is registered and it watches the first min(n, 10) ids of
\* the sequence, every id has the default aggregate, and a snapshot of the
\* registered reaction listener gives an aggregate to watched ids only: the ids
\* rendered beyond the tenth keep the default one whatever is stored for them.
C10_FirstTenWatched ==
    [][/\ \A cb \in msgCallbacks \ msgCallbacks' :
            Len(cb.messagesData) >= 1 =>
                LET ids == IdsOf(cb.messagesData)
                    n == Len(ids)
                IN  /\ Cardinality(reactListeners') = 1
                    /\ \A l \in reactListeners' :
                          /\ l.id = reactionsUnsubscribe'
                          /\ l.ids = {ids[i] : i \in 1..(IF n < 10 THEN n ELSE 10)}
                    /\ \A i \in 1..n :
                          ReactionsOf(messageReactions', ids[i]) = DefaultReactions
       /\ \A cb \in reactCallbacks \ reactCallbacks' :
            \A l \in reactListeners :
               l.id = cb.sub =>
                  /\ DOMAIN messageReactions' \subseteq l.ids
                  /\ LET items == dom'[cb.containerId].items
                     IN  \A i \in 1..Len(items) :
                            i > 10 => /\ ReactionsOf(messageReactions', items[i].id)
                                           = DefaultReactions
                                      /\ items[i].reactions = DefaultReactions]_vars

\* C10's case: more than ten messages are rendered, a reaction is stored for the
\* eleventh, and a reaction snapshot has been aggregated.
C10_Witness ==
    /\ dom["forum-messages"].kind = "list"
    /\ Len(dom["forum-messages"].items) > 10
    /\ \E d \in message_reactions : d.messageId = dom["forum-messages"].items[11].id
    /\ DOMAIN messageReactions # {}
    /\ Cardinality(reactListeners) = 1
    /\ reactCallbacks = {} /\ reactPending = {}

\* ---------------------------------------------------- the feed specification
\* The store calls the message listener l again although no matching document
\* has changed since its last snapshot: the callback runs on the same contents.
RedeliverMsgSnapshot(l) ==
    /\ l \in msgListeners
    /\ l.id \notin msgPending
    /\ LET docs == SnapshotDocs(l.context)
       IN  IF docs = <<>>
           THEN /\ dom' = [dom EXCEPT ![l.containerId] = Placeholder]
                /\ UNCHANGED msgCallbacks
           ELSE /\ Cardinality(msgCallbacks) < MaxInflight
                /\ msgCallbacks' = msgCallbacks \cup
                       {[sub |-> l.id, containerId |-> l.containerId,
                         messagesData |-> MessagesData(docs)]}
                /\ UNCHANGED dom
    /\ UNCHANGED <<msgListeners, msgPending, activeForumUnsubscribe, currentForumContext,
                   storeVars, reactFeedVars, navVars, authVars, modVars, writeVars>>

\* The same for the reaction listener l.
RedeliverReactSnapshot(l) ==
    /\ l \in reactListeners
    /\ l.id \notin reactPending
    /\ Cardinality(reactCallbacks) < MaxInflight
    /\ reactCallbacks' = reactCallbacks \cup
           {[sub |-> l.id, containerId |-> l.containerId, docs |-> ReactionDocs(l.ids)]}
    /\ UNCHANGED <<reactListeners, reactPending, reactionsUnsubscribe, messageReactions,
                   feedVars, storeVars, dom, navVars, authVars, modVars, writeVars>>

\* Two messages in the global forum, nobody signed in, no reaction yet.
InitFeed ==
    /\ forum_messages = [id \in 1..2 |-> StoredMessage(id, "global", id, FALSE)]
    /\ message_reactions = {}
    /\ user_profiles = [u \in Users |-> NoProfile]
    /\ moderators = {}
    /\ NoModeration
    /\ ClientInit

\* The reactions that are written from other clients: the viewer's own like (from
\* another device) and another user's dislike on message 1, a like on message 2.
FeedReactions == {<<1, "u1", "like">>, <<1, "u2", "dislike">>, <<2, "u2", "like">>}

\* The viewer signs in and out and watches the global forum while reactions of
\* any user are written and removed from other clients and snapshots repeat.
NextFeed ==
    \/ \E u \in LocalUsers : AuthStateChanged(u)
    \/ \E cb \in authCallbacks : AuthProfileLoaded(cb, TRUE)
    \/ \E cb \in authCallbacks : AuthRoleLoaded(cb, TRUE)
    \/ confirmLogout
    \/ currentView # "forum" /\ navigateToForum
    \/ \E l \in msgListeners : DeliverMsgSnapshot(l)
    \/ \E l \in msgListeners : RedeliverMsgSnapshot(l)
    \/ \E cb \in msgCallbacks : ResumeMsgCallback(cb)
    \/ \E l \in reactListeners : DeliverReactSnapshot(l)
    \/ \E l \in reactListeners : RedeliverReactSnapshot(l)
    \/ \E cb \in reactCallbacks : ResumeReactCallback(cb)
    \/ \E r \in FeedReactions : OtherClientReacts(r[1], r[2], r[3])
    \/ \E d \in message_reactions : OtherClientUnreacts(d)

SpecFeed == InitFeed /\ [][NextFeed]_vars

\* C11: when a reaction snapshot has been applied, every message's aggregate
\* holds the numbers of like and of dislike records the snapshot has for it (zero
\* when it has none, whatever the previous aggregate held), and userLike /
\* userDislike are true exactly when the snapshot has a record of that type
\* written by the current viewer.
C11_AggregateFromSnapshot ==
    [][\A cb \in reactCallbacks \ reactCallbacks' :
          \A m \in DOMAIN forum_messages :
             LET r == ReactionsOf(messageReactions', m)
                 OfType(t) == {d \in cb.docs : d.messageId = m /\ d.type = t}
             IN  /\ r.likes = Cardinality(OfType("like"))
                 /\ r.dislikes = Cardinality(OfType("dislike"))
                 /\ r.userLike <=> \E d \in OfType("like") : d.userId = currentUser
                 /\ r.userDislike <=> \E d \in OfType("dislike") : d.userId = currentUser]_vars

\* C11's case: the applied snapshot held a like of the viewer and a dislike of
\* another user on message 1, and none for message 2.
C11_Witness ==
    /\ currentUser = "u1"
    /\ reactCallbacks = {} /\ reactPending = {}
    /\ 1 \in DOMAIN messageReactions /\ 2 \notin DOMAIN messageReactions
    /\ messageReactions[1] = [likes |-> 1, dislikes |-> 1, userLike |-> TRUE,
                              userDislike |-> FALSE]

\* C12: a snapshot that is delivered again changes nothing.  A message snapshot
\* whose sequence is the one already rendered, with the reaction listener already
\* watching its first ten ids, leaves the same sequence rendered, the same ids
\* watched and exactly one reaction listener; a reaction snapshot whose aggregate
\* is already in messageReactions leaves messageReactions as it is.
C12_DuplicateSnapshot ==
    [][/\ \A cb \in msgCallbacks \ msgCallbacks' :
            LET c == cb.containerId
                ids == IdsOf(cb.messagesData)
                n == Len(ids)
                watched == {ids[i] : i \in 1..(IF n < 10 THEN n ELSE 10)}
            IN  (/\ n > 0
                 /\ dom[c].kind = "list"
                 /\ IdsOf(dom[c].items) = ids
                 /\ \E l \in reactListeners :
                       l.id = reactionsUnsubscribe /\ l.ids = watched)
                => /\ dom'[c].kind = "list"
                   /\ IdsOf(dom'[c].items) = ids
                   /\ Cardinality(reactListeners') = 1
                   /\ \A l \in reactListeners' : l.ids = watched
       /\ \A cb \in reactCallbacks \ reactCallbacks' :
            messageReactions = Aggregate(cb.docs, currentUser)
                => messageReactions' = messageReactions]_vars

\* C12's case: both listeners were called again on unchanged contents, with two
\* messages rendered and a like and a dislike aggregated for message 1.
C12_Witness ==
    /\ dom["forum-messages"].kind = "list"
    /\ Len(dom["forum-messages"].items) = 2
    /\ 1 \in DOMAIN messageReactions
    /\ messageReactions[1].likes = 1 /\ messageReactions[1].dislikes = 1
    /\ \E cb \in reactCallbacks :
          /\ cb.sub = reactionsUnsubscribe /\ cb.sub \notin reactPending
          /\ Aggregate(cb.docs, currentUser) = messageReactions
    /\ \E cb \in msgCallbacks :
          /\ cb.sub = activeForumUnsubscribe /\ cb.sub \notin msgPending
          /\ IdsOf(cb.messagesData) = IdsOf(dom["forum-messages"].items)

\* ------------------------------------------------------------ reply threading
\* C13: the message data of a send takes its replyTo from the pending reply
\* state at that moment (none when it is empty), a successful send creates exactly
\* one message that carries it, and when the send has finished the reply state is
\* empty, so the next send has no replyTo unless startReply is called again.
C13_ReplyCarriedThenCleared ==
    [][\A p \in sends :
          /\ p.pc = "import" =>
                \A q \in sends' : (q.n = p.n /\ q.pc = "addDoc") => q.replyTo = replyingTo
          /\ (p.pc = "addDoc" /\ \E q \in sends' : q.n = p.n /\ q.pc = "getDoc") =>
                /\ DOMAIN forum_messages' = DOMAIN forum_messages \cup {FreshMessageId}
                /\ FreshMessageId \notin DOMAIN forum_messages
                /\ forum_messages'[FreshMessageId].replyTo = p.replyTo
                /\ \A id \in DOMAIN forum_messages : forum_messages'[id] = forum_messages[id]
          /\ (p.pc = "finish" /\ p \notin sends') => replyingTo' = NoReply]_vars

\* C13's case: a reply to message 1 was sent, and the send that followed it
\* has built its message data without a replyTo.
C13_Witness ==
    /\ 2 \in DOMAIN forum_messages
    /\ forum_messages[2].replyTo = 1
    /\ replyingTo = NoReply
    /\ \E p \in sends : p.pc = "addDoc" /\ p.replyTo = NoReply

\* C14: the reply state changes only in a step of startReply or cancelReply (no
\* send moves) or in the last step of a successful send; a send that is rejected
\* for want of a viewer, a username or a text, or whose addDoc fails, ends there,
\* creates no message and leaves the reply state as it is.
C14_RejectedSendKeepsReply ==
    [][/\ replyingTo' # replyingTo =>
            \/ sends' = sends /\ forum_messages' = forum_messages
            \/ \E p \in sends : p.pc = "finish" /\ sends' = sends \ {p}
       /\ \A p \in sends :
            /\ (/\ p.pc = "import" /\ p \notin sends'
                /\ (~SignedIn(currentUser) \/ ~currentUserProfile.exists
                       \/ currentUserProfile.username = ""))
                  => \A q \in sends' : q.n # p.n
            /\ (p.pc \in {"import", "addDoc"} /\ \A q \in sends' : q.n # p.n)
                  => /\ forum_messages' = forum_messages
                     /\ replyingTo' = replyingTo]_vars

\* C14's case: a reply is pending and the send's addDoc has just failed.
C14_Witness ==
    /\ replyingTo = 1
    /\ sends = {}
    /\ lastAlert = "Error al enviar mensaje."
    /\ Cardinality(DOMAIN forum_messages) = 1

\* -------------------------------------------------- the delete specification
\* The profiles of the developer and of the two users.
Profiles ==
    [u \in Uids |-> IF u = DEVELOPER_UID THEN Profile("Dev")
                    ELSE IF u = "u1" THEN Profile("ana") ELSE Profile("beto")]

\* One message of u2 in the global forum; u1 may have a moderators document.
InitDelete ==
    /\ forum_messages = [id \in 1..1 |-> StoredMessage(id, "global", 1, FALSE)]
    /\ message_reactions = {}
    /\ user_profiles = Profiles
    /\ moderators \in SUBSET LocalUsers
    /\ NoModeration
    /\ ClientInit

\* u1 signs in and out, sends and deletes messages, and the moderators document
\* of u1 is removed.
NextDelete ==
    \/ \E u \in LocalUsers : currentUser = NoUser /\ AuthStateChanged(u)
    \/ \E cb \in authCallbacks : AuthProfileLoaded(cb, TRUE)
    \/ \E cb \in authCallbacks : AuthRoleLoaded(cb, TRUE)
    \/ confirmLogout
    \/ sendMessage
    \/ \E p \in sends : \E text \in Texts : SendCheckUser(p, text, clock)
    \/ \E p \in sends : \E ok \in BOOLEAN : SendAddDoc(p, ok)
    \/ \E p \in sends : SendGetCount(p, TRUE)
    \/ \E p \in sends : SendSetCount(p, TRUE)
    \/ \E p \in sends : SendFinish(p)
    \/ \E m \in DOMAIN forum_messages : deleteMessage(m)
    \/ \E p \in modCalls : DeleteCheckRole(p)
    \/ \E p \in modCalls : \E ok \in BOOLEAN : DeleteUpdateDoc(p, ok)
    \/ \E u \in LocalUsers : u \in moderators /\ removeModerator(u)
    \/ \E p \in modCalls : \E ok \in BOOLEAN : RemoveModGetDoc(p, ok)
    \/ \E p \in modCalls : \E ok \in BOOLEAN : RemoveModSetProfile(p, ok)
    \/ \E p \in modCalls : \E ok \in BOOLEAN : RemoveModDeleteDoc(p, ok)

SpecDelete == InitDelete /\ [][NextDelete]_vars

\* C15: deleteMessage goes on to mark a message deleted only when the role that
\* the developer id and the moderator registry give the viewer at that moment is
\* developer or moderator; for every other viewer, one whose registry entry was
\* removed after sign-in included, the call ends and the message is left alone.
C15_DeleteNeedsCurrentRole ==
    [][\A p \in modCalls :
          (p.op = "deleteMessage" /\ p.pc = "import") =>
              \A q \in modCalls' :
                 (q.n = p.n /\ q.pc = "updateDoc") =>
                     CanDelete(getUserRole(currentUser, TRUE))]_vars

\* C16: no step removes a message document or changes its context, author, text
\* or timestamp, and none clears its deleted mark; the only change to a stored
\* message is deleteMessage's update, which sets deleted, deletedBy (the viewer
\* who called it) and deletedAt and nothing else; a deleted message is in no
\* message sequence that is built from the store afterwards, and its document,
\* audit fields included, is still there under its id.
C16_SoftDeleteOnly ==
    [][/\ \A id \in DOMAIN forum_messages :
            /\ id \in DOMAIN forum_messages'
            /\ forum_messages'[id].context = forum_messages[id].context
            /\ forum_messages'[id].userId = forum_messages[id].userId
            /\ forum_messages'[id].user = forum_messages[id].user
            /\ forum_messages'[id].text = forum_messages[id].text
            /\ forum_messages'[id].timestamp = forum_messages[id].timestamp
            /\ forum_messages[id].deleted => forum_messages'[id].deleted
            /\ forum_messages'[id] # forum_messages[id] =>
                  \E p \in modCalls :
                     /\ p.op = "deleteMessage" /\ p.pc = "updateDoc" /\ p.messageId = id
                     /\ p.uid # NoUser
                     /\ forum_messages'[id] =
                           [forum_messages[id] EXCEPT !.deleted = TRUE,
                                                      !.deletedBy = p.uid,
                                                      !.deletedAt = p.at]
       /\ \A p \in modCalls :
            (p.op = "deleteMessage" /\ p.pc = "import") =>
                \A q \in modCalls' :
                   (q.n = p.n /\ q.pc = "updateDoc") => q.uid = currentUser
       /\ \A id \in DOMAIN forum_messages :
            forum_messages[id].deleted =>
                \A c \in Contexts :
                   id \notin Range(IdsOf(MessagesData(SnapshotDocs(c))))]_vars

\* C16's case: u1 has deleted the message of u2 and has sent a message that is
\* still shown.
C16_Witness ==
    /\ forum_messages[1].deleted
    /\ forum_messages[1].deletedBy = "u1"
    /\ forum_messages[1].deletedAt # NoTime
    /\ forum_messages[1].text = "gol"
    /\ 2 \in DOMAIN forum_messages
    /\ IdsOf(MessagesData(SnapshotDocs("global"))) = <<2>>
    /\ modCalls = {}

\* ---------------------------------------------- the moderation specification
\* The names and uids that are typed into the moderation forms.
TypedNames == {"DEV", " beto", "nadie"}
TypedUids == {DEVELOPER_UID, PaddedDeveloperUid, "u1"}
Durations == {1}

\* Nobody is a moderator yet, nobody is muted or banned, nobody is signed in.
InitModerate ==
    /\ forum_messages = [id \in 1..1 |-> StoredMessage(id, "global", 1, FALSE)]
    /\ message_reactions = {}
    /\ user_profiles = Profiles
    /\ moderators = {}
    /\ NoModeration
    /\ ClientInit

\* u1 signs in and out, and the functions moderation.js exports are called while
\* the lists of the moderation panel are not shown.
NextModerate ==
    \/ \E u \in LocalUsers : currentUser = NoUser /\ AuthStateChanged(u)
    \/ \E cb \in authCallbacks : AuthProfileLoaded(cb, TRUE)
    \/ \E cb \in authCallbacks : AuthRoleLoaded(cb, TRUE)
    \/ confirmLogout
    \/ \E name \in TypedNames : \E d \in Durations : muteUser(name, d)
    \/ \E p \in modCalls : \E ok \in BOOLEAN : MuteSearch(p, ok)
    \/ \E p \in modCalls : \E ok \in BOOLEAN : MuteSetDoc(p, ok, FALSE)
    \/ \E u \in Users : muted_users[u].exists /\ unmuteUser(u)
    \/ \E p \in modCalls : \E ok \in BOOLEAN : UnmuteDeleteDoc(p, ok, FALSE)
    \/ \E name \in TypedNames : banUser(name)
    \/ \E p \in modCalls : \E ok, confirmed \in BOOLEAN : BanSearch(p, ok, confirmed)
    \/ \E p \in modCalls : \E ok \in BOOLEAN : BanSetDoc(p, ok)
    \/ \E p \in modCalls : \E ok \in BOOLEAN : BanDeleteMute(p, ok, FALSE)
    \/ \E u \in banned_users : unbanUser(u)
    \/ \E p \in modCalls : \E ok \in BOOLEAN : UnbanDeleteDoc(p, ok)
    \/ \E uid \in TypedUids : addModerator(uid)
    \/ \E p \in modCalls : \E ok \in BOOLEAN : AddModGetDoc(p, ok)
    \/ \E p \in modCalls : \E ok \in BOOLEAN : AddModSetModerator(p, ok)
    \/ \E p \in modCalls : \E ok \in BOOLEAN : AddModSetProfile(p, ok)
    \/ \E u \in moderators : removeModerator(u)
    \/ \E p \in modCalls : \E ok \in BOOLEAN : RemoveModGetDoc(p, ok)
    \/ \E p \in modCalls : \E ok \in BOOLEAN : RemoveModSetProfile(p, ok)
    \/ \E p \in modCalls : \E ok \in BOOLEAN : RemoveModDeleteDoc(p, ok)

SpecModerate == InitModerate /\ [][NextModerate]_vars

\* C17: a mute or ban document is written or deleted only while a viewer is
\* signed in whose role (the one the session holds, or the one the registry
\* gives) is developer or moderator, and the moderator registry and a profile's
\* role field change only while the viewer is the developer; called by anybody
\* else, or with nobody signed in, the functions leave the four collections as
\* they are.
C17_ModerationNeedsRole ==
    [][/\ (muted_users' # muted_users \/ banned_users' # banned_users) =>
            /\ currentUser # NoUser
            /\ \/ CanDelete(currentUserRole)
               \/ CanDelete(getUserRole(currentUser, TRUE))
       /\ (moderators' # moderators \/ user_profiles' # user_profiles) =>
            /\ currentUser # NoUser
            /\ \/ currentUserRole = "developer"
               \/ getUserRole(currentUser, TRUE) = "developer"]_vars

\* C18: no state has a mute document, a ban document or a moderators document
\* under the developer's uid; a muteUser or banUser whose name resolves to the
\* developer returns false at that point and writes nothing, and addModerator
\* with the developer's uid (blanks around it or not) starts no call and writes
\* nothing.
C18_DeveloperUntouched ==
    [][/\ ~muted_users'[DEVELOPER_UID].exists
       /\ DEVELOPER_UID \notin banned_users'
       /\ DEVELOPER_UID \notin moderators'
       /\ user_profiles'[DEVELOPER_UID].role = "user"
       /\ \A p \in modCalls :
            (/\ p.op \in {"muteUser", "banUser"} /\ p.pc = "search"
             /\ p \notin modCalls'
             /\ searchUserByUsername(p.arg) = DEVELOPER_UID)
            => /\ modCalls' = modCalls \ {p}
               /\ returned'.op = p.op /\ ~returned'.value
               /\ muted_users' = muted_users /\ banned_users' = banned_users
       /\ \A q \in modCalls' :
            q.op = "addModerator" => (q.arg # DEVELOPER_UID /\ q.uid # DEVELOPER_UID)
       /\ (/\ lastAlert' # lastAlert
           /\ lastAlert' = "El desarrollador ya tiene todos los permisos") =>
            /\ modCalls' = modCalls
            /\ moderators' = moderators
            /\ user_profiles' = user_profiles]_vars

\* C18's case: u2 is muted, u1 is a moderator, and the last call was a banUser
\* of the developer's name, which was refused.
C18_Witness ==
    /\ muted_users["u2"].exists
    /\ "u1" \in moderators
    /\ lastAlert = "No puedes banear al desarrollador"
    /\ returned = [op |-> "banUser", uid |-> DEVELOPER_UID, value |-> FALSE]
    /\ modCalls = {}

\* C20: when banUser returns true, the user has a ban document and no mute
\* document, whatever the mute state was before and whichever of banUser's writes
\* the store applied or rejected.
C20_BanSupersedesMute ==
    [][\A p \in modCalls :
          (/\ p.op = "banUser"
           /\ \A q \in modCalls' : q.n # p.n \/ q.op # "banUser"
           /\ returned' = [op |-> "banUser", uid |-> p.uid, value |-> TRUE])
          => /\ p.uid \in banned_users'
             /\ ~muted_users'[p.uid].exists]_vars

\* ---------------------------------------------------- the mute specification
\* The users that are muted and asked about.
MuteNames == {" beto", "ana"}

\* Time passes while users are muted, unmuted and banned, the lists of the two
\* panels are loaded, and isUserMuted / isUserBanned are asked; the store answers
\* the reads of isUserMuted and applies its delete.
NextMute ==
    \/ Tick
    \/ \E name \in MuteNames : \E d \in Durations : muteUser(name, d)
    \/ \E p \in modCalls : \E ok \in BOOLEAN : MuteSearch(p, ok)
    \/ \E p \in modCalls : \E ok, listShown \in BOOLEAN : MuteSetDoc(p, ok, listShown)
    \/ \E u \in Users : muted_users[u].exists /\ unmuteUser(u)
    \/ \E p \in modCalls : \E ok, listShown \in BOOLEAN : UnmuteDeleteDoc(p, ok, listShown)
    \/ \E name \in MuteNames : banned_users = {} /\ banUser(name)
    \/ \E p \in modCalls : \E ok, confirmed \in BOOLEAN : BanSearch(p, ok, confirmed)
    \/ \E p \in modCalls : \E ok \in BOOLEAN : BanSetDoc(p, ok)
    \/ \E p \in modCalls : \E ok, listShown \in BOOLEAN : BanDeleteMute(p, ok, listShown)
    \/ \E u \in banned_users : unbanUser(u)
    \/ \E p \in modCalls : \E ok \in BOOLEAN : UnbanDeleteDoc(p, ok)
    \/ \E op \in {"loadMutedUsers", "loadModMutedUsers"} : loadMutedUsers(op)
    \/ \E p \in modCalls : \E ok \in BOOLEAN : LoadGetDocs(p, ok)
    \/ \E p \in modCalls : \E ok \in BOOLEAN : LoadDeleteExpired(p, ok)
    \/ \E u \in Users : isUserMuted(u)
    \/ \E p \in modCalls : MutedGetDoc(p, TRUE)
    \/ \E p \in modCalls : MutedDeleteDoc(p, TRUE)
    \/ \E u \in Users : isUserBanned(u)
    \/ \E p \in modCalls : \E ok \in BOOLEAN : BannedGetDoc(p, ok)

SpecMute == InitModerate /\ [][NextMute]_vars

\* C19: isUserMuted returns the mute exactly when the user has a mute document
\* whose expiresAt is not before the current time, and then changes nothing, as
\* it does for a user without a document; for a document whose expiresAt has
\* passed it deletes the document and returns null.  A successful muteUser leaves
\* a document that expires durationMinutes after the call's Date.now().  A mute
\* document disappears only with the delete of isUserMuted or of a list loader
\* (expiry), of unmuteUser or of banUser; the passing of time removes none.
C19_LazyExpiry ==
    [][/\ \A p \in modCalls :
            p.op = "isUserMuted" =>
               LET rec == muted_users[p.uid]
                   live == rec.exists /\ rec.expiresAt >= clock
                   ended == \A q \in modCalls' : q.n # p.n \/ q.op # "isUserMuted"
                   Says(value) ==
                       returned' = [op |-> "isUserMuted", uid |-> p.uid, value |-> value]
               IN  /\ (p.pc = "getDoc" /\ p \notin modCalls') =>
                         /\ live => (ended /\ Says(TRUE))
                         /\ ~rec.exists => (ended /\ Says(FALSE))
                         /\ (rec.exists /\ ~live) => ~ended
                         /\ muted_users' = muted_users
                   /\ (p.pc = "deleteDoc" /\ p \notin modCalls') =>
                         /\ ended /\ Says(FALSE)
                         /\ muted_users' = [muted_users EXCEPT ![p.uid] = NoMute]
       /\ \A p \in modCalls :
            p.op = "muteUser" =>
               /\ \A q \in modCalls' :
                     (q.n = p.n /\ p.pc = "search" /\ q.pc = "setDoc") =>
                         q.at = clock + p.duration
               /\ (/\ p.pc = "setDoc" /\ p \notin modCalls'
                   /\ lastAlert' = "ha sido muteado") =>
                     /\ returned' = [op |-> "muteUser", uid |-> p.uid, value |-> TRUE]
                     /\ muted_users'[p.uid] = [exists |-> TRUE, expiresAt |-> p.at]
       /\ \A u \in Uids :
            (muted_users[u].exists /\ ~muted_users'[u].exists) =>
                \E p \in modCalls \ modCalls' :
                   /\ p.pc = "deleteDoc"
                   /\ \/ p.op \in {"isUserMuted", "unmuteUser", "banUser"} /\ p.uid = u
                      \/ /\ p.op \in {"loadMutedUsers", "loadModMutedUsers"}
                         /\ Head(p.todo) = u]_vars

\* C19's case: u2 was muted, the time went past the mute's expiry, and the
\* isUserMuted that was asked then has returned null and left no document.
C19_Witness ==
    /\ lastAlert = "ha sido muteado"
    /\ clock = MaxClock
    /\ returned = [op |-> "isUserMuted", uid |-> "u2", value |-> FALSE]
    /\ ~muted_users["u2"].exists
    /\ muted_users["u1"].exists
    /\ modCalls = {}

\* ------------------------------------------------ failures of the store's writes
\* C21: a removeModerator that has read a profile with role moderator of a uid that
\* has a moderators document ends with the two in agreement: the document is there
\* and the role is moderator (neither step took effect), or the document is gone
\* and the role is user (both did), whichever of its requests the store rejected.
C21_RemoveModeratorAtomic ==
    [][\A p \in modCalls :
          (/\ p.op = "removeModerator" /\ p.pc # "getDoc"
           /\ p.data.exists /\ p.data.role = "moderator"
           /\ p.uid \in moderators
           /\ \A q \in modCalls' : q.n # p.n)
          => (p.uid \in moderators' <=> user_profiles'[p.uid].role = "moderator")]_vars

\* ----------------------------------------------------- the read specification
\* A mute that was written at time 0 for one minute.
StoredMute == [exists |-> TRUE, expiresAt |-> ExpiresAt(0, 1)]

\* Any of the two users may be a moderator, muted or banned.
InitRead ==
    /\ forum_messages = [id \in 1..1 |-> StoredMessage(id, "global", 1, FALSE)]
    /\ message_reactions = {}
    /\ user_profiles = Profiles
    /\ moderators \in SUBSET Users
    /\ muted_users \in [Uids -> {NoMute, StoredMute}]
    /\ ~muted_users[DEVELOPER_UID].exists
    /\ banned_users \in SUBSET Users
    /\ clock = 0
    /\ modCalls = {}
    /\ returned = NoReturn
    /\ ClientInit

\* Anybody signs in and out, isUserMuted and isUserBanned are asked, and the store
\* answers or rejects every read and delete.
NextRead ==
    \/ Tick
    \/ \E u \in Uids : currentUser = NoUser /\ AuthStateChanged(u)
    \/ \E cb \in authCallbacks : \E ok \in BOOLEAN : AuthProfileLoaded(cb, ok)
    \/ \E cb \in authCallbacks : \E ok \in BOOLEAN : AuthRoleLoaded(cb, ok)
    \/ confirmLogout
    \/ \E u \in Users : isUserMuted(u)
    \/ \E p \in modCalls : \E ok \in BOOLEAN : MutedGetDoc(p, ok)
    \/ \E p \in modCalls : \E ok \in BOOLEAN : MutedDeleteDoc(p, ok)
    \/ \E u \in Users : isUserBanned(u)
    \/ \E p \in modCalls : \E ok \in BOOLEAN : BannedGetDoc(p, ok)

SpecRead == InitRead /\ [][NextRead]_vars

\* C22: the role that getUserRole hands to the session is developer exactly for the
\* developer's uid, moderator only when the registry was read and holds the uid,
\* and user when the read was rejected or found nothing; an isUserMuted or
\* isUserBanned whose read is rejected ends there, returns null and changes no
\* document, and an isUserMuted whose delete is rejected returns null as well.
C22_ReadsDegrade ==
    [][/\ \A cb \in authCallbacks : \A ok \in BOOLEAN :
             AuthRoleLoaded(cb, ok) =>
                /\ currentUserRole' = "developer" <=> cb.uid = DEVELOPER_UID
                /\ currentUserRole' = "moderator" => (ok /\ cb.uid \in moderators)
                /\ (cb.uid # DEVELOPER_UID /\ (~ok \/ cb.uid \notin moderators)) =>
                       currentUserRole' = "user"
       /\ \A p \in modCalls :
             (MutedGetDoc(p, FALSE) \/ BannedGetDoc(p, FALSE) \/ MutedDeleteDoc(p, FALSE)) =>
                /\ modCalls' = modCalls \ {p}
                /\ returned' = [op |-> p.op, uid |-> p.uid, value |-> FALSE]
                /\ muted_users' = muted_users
                /\ banned_users' = banned_users]_vars

\* C22's case: the moderator u1 is signed in with the role user, and the last
\* isUserBanned of the banned u2 has returned null.
C22_Witness ==
    /\ currentUser = "u1" /\ "u1" \in moderators
    /\ authCallbacks = {}
    /\ currentUserRole = "user"
    /\ "u2" \in banned_users
    /\ returned = [op |-> "isUserBanned", uid |-> "u2", value |-> FALSE]
    /\ modCalls = {}

\* The alerts of the catch blocks of muteUser, banUser, addModerator and
\* removeModerator.
ErrorAlerts ==
    {"Error al mutear usuario", "Error al banear usuario", "Error al agregar moderador",
     "Error al quitar moderador"}

\* C23: a step in which the store rejects a write of muteUser, banUser,
\* addModerator or removeModerator ends the call (the write is not sent again),
\* shows the error alert of the function, and makes muteUser and banUser return
\* false.
C23_WriteFailureReported ==
    [][\A p \in modCalls :
          (\/ MuteSetDoc(p, FALSE, FALSE)
           \/ BanSetDoc(p, FALSE)
           \/ BanDeleteMute(p, FALSE, FALSE)
           \/ AddModSetModerator(p, FALSE)
           \/ AddModSetProfile(p, FALSE)
           \/ RemoveModSetProfile(p, FALSE)
           \/ RemoveModDeleteDoc(p, FALSE))
          => /\ modCalls' = modCalls \ {p}
             /\ lastAlert' \in ErrorAlerts
             /\ p.op \in {"muteUser", "banUser"} =>
                   returned' = [op |-> p.op, uid |-> p.uid, value |-> FALSE]]_vars

\* ------------------------------------------------------ the shown reaction counts
\* C24: when the callback of the current reaction listener has applied its
\* snapshot, every message element of its container shows the aggregate of that
\* snapshot: the counts and flags of its records for the message, and 0, 0,
\* false, false for a message the snapshot has no record of.
C24_ShownCountsFollowSnapshot ==
    [][\A cb \in reactCallbacks \ reactCallbacks' :
          cb.sub = reactionsUnsubscribe =>
             LET items == dom'[cb.containerId].items
             IN  \A i \in 1..Len(items) :
                    items[i].reactions =
                        ReactionsOf(Aggregate(cb.docs, currentUser), items[i].id)]_vars

\* ------------------------------------------------- replies started during a send
\* C25: the last step of a send clears the pending reply only when that reply is
\* the one the send has attached to its message; a reply that startReply has set
\* while the send was suspended at an await is still pending afterwards.
C25_SendClearsOnlyItsReply ==
    [][\A p \in sends :
          (p.pc = "finish" /\ p \notin sends' /\ replyingTo' # replyingTo) =>
              replyingTo = p.replyTo]_vars

\* ------------------------------------------------------ the role of the session
\* C26: when no auth-state callback is suspended and nobody is signed in, the
\* role the session holds is user.
C26_SignedOutRoleIsUser ==
    (authCallbacks = {} /\ currentUser = NoUser) => currentUserRole = "user"

\* ------------------------------------------- setUserUsername (auth.js:97-145)
\* The user names that are typed into the username form.
NewNames == {"ana", "anita", "beto"}

\* saveUsername (auth.js:244-276) calls setUserUsername for the signed-in
\* user; the function is suspended at `await getUserProfile(uid)`.
setUserUsername(username) ==
    /\ currentUser # NoUser
    /\ Cardinality(modCalls) < MaxModCalls
    /\ modCalls' = modCalls \cup
           {[NewCall("setUserUsername", "getProfile", username, 0, 0)
                EXCEPT !.uid = currentUser]}
    /\ UNCHANGED <<forum_messages, msgPending, user_profiles, moderators, lastAlert,
                   muted_users, banned_users, returned, modFrame>>

\* auth.js:100-104: getUserProfile resolved (null when the read failed or found
\* nothing); a new user and a changed name have the name's availability checked.
SetUsernameGetProfile(p, ok) ==
    /\ p \in modCalls
    /\ p.op = "setUserUsername" /\ p.pc = "getProfile"
    /\ LET existingProfile == IF ok THEN user_profiles[p.uid] ELSE NoProfile
       IN  modCalls' = (modCalls \ {p}) \cup
               {[p EXCEPT !.data = existingProfile,
                          !.pc = IF ~existingProfile.exists
                                    \/ existingProfile.username # p.arg
                                 THEN "available" ELSE "setDoc"]}
    /\ UNCHANGED <<forum_messages, msgPending, user_profiles, moderators, lastAlert,
                   muted_users, banned_users, returned, modFrame>>

\* isUsernameAvailable (auth.js:76-86): no profile has the name; false when the
\* query failed.
isUsernameAvailable(username, ok) ==
    ok /\ \A u \in DOMAIN user_profiles :
             ~(user_profiles[u].exists /\ user_profiles[u].username = username)

\* auth.js:104-115: isUsernameAvailable resolved; a taken name ends the call with
\* false.
SetUsernameAvailable(p, ok) ==
    /\ p \in modCalls
    /\ p.op = "setUserUsername" /\ p.pc = "available"
    /\ IF isUsernameAvailable(p.arg, ok)
       THEN /\ modCalls' = (modCalls \ {p}) \cup {[p EXCEPT !.pc = "setDoc"]}
            /\ UNCHANGED returned
       ELSE /\ modCalls' = modCalls \ {p}
            /\ Return(p, FALSE)
    /\ UNCHANGED <<forum_messages, msgPending, user_profiles, moderators, lastAlert,
                   muted_users, banned_users, modFrame>>

\* auth.js:117-144: setDoc(docRef, {uid, email, username, photoURL, createdAt})
\* was applied (ok): it is a write without merge, so the document is replaced and
\* has no role and no commentCount field afterwards; the profile in memory is
\* replaced as well and true is returned.  Or it was rejected and false is
\* returned.
SetUsernameSetDoc(p, ok) ==
    /\ p \in modCalls
    /\ p.op = "setUserUsername" /\ p.pc = "setDoc"
    /\ modCalls' = modCalls \ {p}
    /\ Return(p, ok)
    /\ IF ok
       THEN /\ user_profiles' =
                   [user_profiles EXCEPT ![p.uid] = Profile(p.arg)]
            /\ currentUserProfile' = Profile(p.arg)
       ELSE UNCHANGED <<user_profiles, currentUserProfile>>
    /\ UNCHANGED <<forum_messages, msgPending, moderators, lastAlert, muted_users,
                   banned_users, message_reactions, msgListeners, msgCallbacks,
                   activeForumUnsubscribe, currentForumContext, reactFeedVars, dom,
                   navVars, currentUser, currentUserRole, authCallbacks, toggles, sends,
                   replyingTo, toggleLog, clock>>

\* ------------------------------------------------------ the role specification
\* Users sign in and out and set their user name, moderators are added and
\* removed, and the store answers every read and applies every write.
NextRole ==
    \/ \E u \in Users : currentUser = NoUser /\ AuthStateChanged(u)
    \/ \E cb \in authCallbacks : AuthProfileLoaded(cb, TRUE)
    \/ \E cb \in authCallbacks : AuthRoleLoaded(cb, TRUE)
    \/ confirmLogout
    \/ \E name \in NewNames : setUserUsername(name)
    \/ \E p \in modCalls : SetUsernameGetProfile(p, TRUE)
    \/ \E p \in modCalls : SetUsernameAvailable(p, TRUE)
    \/ \E p \in modCalls : SetUsernameSetDoc(p, TRUE)
    \/ \E uid \in TypedUids \cup Users : addModerator(uid)
    \/ \E p \in modCalls : AddModGetDoc(p, TRUE)
    \/ \E p \in modCalls : AddModSetModerator(p, TRUE)
    \/ \E p \in modCalls : AddModSetProfile(p, TRUE)
    \/ \E u \in moderators : removeModerator(u)
    \/ \E p \in modCalls : RemoveModGetDoc(p, TRUE)
    \/ \E p \in modCalls : RemoveModSetProfile(p, TRUE)
    \/ \E p \in modCalls : RemoveModDeleteDoc(p, TRUE)

SpecRole == InitModerate /\ [][NextRole]_vars

\* C27: while no addModerator, removeModerator or setUserUsername is in flight,
\* a uid has a moderators document exactly when the role field of its profile is
\* moderator.
C27_RegistryMatchesProfileRole ==
    modCalls = {} =>
        \A u \in Uids : u \in moderators <=> user_profiles[u].role = "moderator"

\* -------------------------------------------------- the sanction specification
\* Users are muted, unmuted, banned and unbanned by name while time passes, and
\* the store answers every read and applies every write.
NextSanction ==
    \/ Tick
    \/ \E name \in MuteNames : \E d \in Durations : muteUser(name, d)
    \/ \E p \in modCalls : MuteSearch(p, TRUE)
    \/ \E p \in modCalls : MuteSetDoc(p, TRUE, FALSE)
    \/ \E u \in Users : muted_users[u].exists /\ unmuteUser(u)
    \/ \E p \in modCalls : UnmuteDeleteDoc(p, TRUE, FALSE)
    \/ \E name \in MuteNames : banUser(name)
    \/ \E p \in modCalls : \E confirmed \in BOOLEAN : BanSearch(p, TRUE, confirmed)
    \/ \E p \in modCalls : BanSetDoc(p, TRUE)
    \/ \E p \in modCalls : BanDeleteMute(p, TRUE, FALSE)
    \/ \E u \in banned_users : unbanUser(u)
    \/ \E p \in modCalls : UnbanDeleteDoc(p, TRUE)

SpecSanction == InitModerate /\ [][NextSanction]_vars

\* C28: while no muteUser, unmuteUser, banUser or unbanUser is in flight, no uid
\* has a ban document and a mute document.
C28_BannedIsNotMuted ==
    modCalls = {} => \A u \in Uids : ~(u \in banned_users /\ muted_users[u].exists)

\* ------------------------------------------------- the context specification
\* setForumContext (forum.js:507): the context is assigned, nothing else.
setForumContext(context) ==
    /\ context # currentForumContext
    /\ currentForumContext' = context
    /\ UNCHANGED <<msgListeners, msgPending, msgCallbacks, activeForumUnsubscribe,
                   storeVars, reactFeedVars, dom, navVars, authVars, modVars, writeVars>>

\* u1 has the user name 'ana'; the store holds no message yet.
InitContext ==
    /\ forum_messages = [id \in {} |-> StoredMessage(id, "global", 1, FALSE)]
    /\ message_reactions = {}
    /\ user_profiles = [u \in Users |-> IF u \in LocalUsers THEN Profile("ana")
                                        ELSE NoProfile]
    /\ moderators = {}
    /\ NoModeration
    /\ ClientInit

\* u1 signs in, opens the global forum and the forum of match 42 and sends a
\* first message, and the context is set from outside.
NextContext ==
    \/ \E u \in LocalUsers : currentUser = NoUser /\ AuthStateChanged(u)
    \/ \E cb \in authCallbacks : AuthProfileLoaded(cb, TRUE)
    \/ \E cb \in authCallbacks : AuthRoleLoaded(cb, TRUE)
    \/ currentView # "forum" /\ navigateToForum
    \/ \E m \in Matches : currentView # "detail" /\ openDetail(m)
    \/ \E t \in Tabs : switchTab(t)
    \/ \E c \in Contexts : setForumContext(c)
    \/ \E l \in msgListeners : DeliverMsgSnapshot(l)
    \/ \E cb \in msgCallbacks : ResumeMsgCallback(cb)
    \/ DOMAIN forum_messages = {} /\ sendMessage
    \/ \E p \in sends : \E text \in Texts : SendCheckUser(p, text, clock)
    \/ \E p \in sends : \E ok \in BOOLEAN : SendAddDoc(p, ok)
    \/ \E p \in sends : SendGetCount(p, TRUE)
    \/ \E p \in sends : SendSetCount(p, TRUE)
    \/ \E p \in sends : SendFinish(p)

SpecContext == InitContext /\ [][NextContext]_vars

\* C29: the context a send would give its message is the context of the query of
\* the active message listener, whenever there is one.
C29_ContextIsListenersContext ==
    \A l \in msgListeners :
        l.id = activeForumUnsubscribe => l.context = currentForumContext

\* --------------------------------------------------- the comment-count specification
\* A sendMessage of user u in another session (another tab or device) that ran
\* from its addDoc to the end of incrementUserCommentCount: one more message, and
\* the count it read plus one.
OtherSessionSends(u) ==
    /\ user_profiles[u].exists /\ user_profiles[u].username # ""
    /\ Cardinality(DOMAIN forum_messages) < MaxMsgs
    /\ forum_messages' =
           [id \in DOMAIN forum_messages \cup {FreshMessageId} |->
               IF id = FreshMessageId
               THEN [context |-> "global", userId |-> u,
                     user |-> user_profiles[u].username, userRole |-> "user",
                     text |-> "hola", timestamp |-> clock,
                     deleted |-> FALSE, deletedBy |-> NoUser, deletedAt |-> NoTime,
                     replyTo |-> NoReply]
               ELSE forum_messages[id]]
    /\ msgPending' = NotifyMsgListeners("global")
    /\ user_profiles' =
           [user_profiles EXCEPT ![u].commentCount = user_profiles[u].commentCount + 1]
    /\ UNCHANGED <<message_reactions, msgListeners, msgCallbacks,
                   activeForumUnsubscribe, currentForumContext, reactFeedVars, dom,
                   navVars, authVars, modVars, moderators, toggles, sends, replyingTo,
                   toggleLog, lastAlert>>

\* u1 signs in and out and sends messages from this session and from another one;
\* the store answers the reads and applies the writes of the count.
NextCount ==
    \/ \E u \in LocalUsers : currentUser = NoUser /\ AuthStateChanged(u)
    \/ \E cb \in authCallbacks : AuthProfileLoaded(cb, TRUE)
    \/ \E cb \in authCallbacks : AuthRoleLoaded(cb, TRUE)
    \/ confirmLogout
    \/ sendMessage
    \/ \E p \in sends : \E text \in Texts : SendCheckUser(p, text, clock)
    \/ \E p \in sends : \E ok \in BOOLEAN : SendAddDoc(p, ok)
    \/ \E p \in sends : SendGetCount(p, TRUE)
    \/ \E p \in sends : SendSetCount(p, TRUE)
    \/ \E p \in sends : SendFinish(p)
    \/ \E m \in DOMAIN forum_messages : startReply(m)
    \/ cancelReply
    \/ \E u \in LocalUsers : OtherSessionSends(u)

SpecCount == InitContext /\ [][NextCount]_vars

\* The messages that sendMessage calls of user u have created.
SentBy(u) == {id \in DOMAIN forum_messages : forum_messages[id].userId = u}

\* C30: while no send is in flight in this session, the commentCount of a user's
\* profile is the number of messages the user's sends have created.
C30_CountIsNumberOfSends ==
    sends = {} =>
        \A u \in LocalUsers : user_profiles[u].commentCount = Cardinality(SentBy(u))

====
